---------------------------- MODULE Spec2Model ----------------------------
(***************************************************************************)
(* Light visibility of bevy_pbr (crates/bevy_pbr/src/light/mod.rs): the    *)
(* per-frame systems that cull mesh entities against the frusta of         *)
(* directional, point and spot lights, and the deferred command that marks *)
(* the entities found by the directional classifier.                       *)
(*                                                                         *)
(* Vec<Entity> buffers are modelled as bags (entity -> number of           *)
(* occurrences): no code path reads the position of an element.            *)
(* Option<T> is modelled as a sequence of length 0 (None) or 1 (Some).     *)
(***************************************************************************)
EXTENDS Integers, FiniteSets, Sequences, TLC

(***************************************************************************)
(* Bounds of the model.                                                    *)
(***************************************************************************)
\* number of threads of the task pool that may run a par_iter closure
NumWorkers == 2
\* largest num_cascades of a CascadeShadowConfigBuilder
MaxCascades == 3
\* largest length and largest capacity of a buffer handed to shrink_entities
MaxLen == 3
MaxCapacity == 12

(***************************************************************************)
(* Entities of the world.                                                  *)
(***************************************************************************)
Meshes == {"m1", "m2"}
PointLights == {"p1"}
SpotLights == {"s1"}
DirLights == {"d1"}
Lights == PointLights \cup SpotLights \cup DirLights
\* the camera views, in the iteration order of the queries over them
ViewOrder == <<"v1", "v2">>
Views == {ViewOrder[i] : i \in 1..Len(ViewOrder)}
Workers == 1..NumWorkers

\* [Vec<Entity>; 6]: one buffer per cubemap face
CubeFaces == 6
Faces == 1..CubeFaces

None == <<>>
Some(x) == <<x>>

(***************************************************************************)
(* Bags of entities.                                                       *)
(***************************************************************************)
EmptyBag == [e \in Meshes |-> 0]
BagPush(b, e) == [b EXCEPT ![e] = @ + 1]
BagAppend(dst, src) == [e \in Meshes |-> dst[e] + src[e]]
BagMembers(b) == {e \in Meshes : b[e] > 0}

\* resize(n, Default::default()) of a Vec of buffers
Resize(s, n) == [i \in 1..n |-> IF i <= Len(s) THEN s[i] ELSE EmptyBag]
Min(a, b) == IF a < b THEN a ELSE b
\* dst.iter_mut().zip(src.iter_mut()).for_each(|(d, s)| d.append(s)): the
\* destination after the append, and the source after it was drained
ZipAppendDst(dst, src) ==
    [i \in 1..Len(dst) |-> IF i <= Len(src) THEN BagAppend(dst[i], src[i]) ELSE dst[i]]
\* (a variant that copies the elements and leaves the source as it was)
ZipAppendSrcKept(dst, src) == src
ZipAppendSrc(dst, src) ==
    [i \in 1..Len(src) |-> IF i <= Len(dst) THEN EmptyBag ELSE src[i]]

(***************************************************************************)
(* Render layers.                                                          *)
(***************************************************************************)
\* RenderLayers::default(): layer 0
DefaultLayers == {0}
unwrap_or_default(maybe_mask) ==
    IF maybe_mask = None THEN DefaultLayers ELSE maybe_mask[1]
\* view_mask.intersects(entity_mask)
MaskIntersects(view_mask, entity_mask) == view_mask \cap entity_mask # {}


(***************************************************************************)
(* Geometry.  Positions are points of an integer grid; the oriented        *)
(* bounding box of a mesh (its Aabb under its GlobalTransform) is the      *)
(* grid point it is placed at.  A frustum is kept as the parameters it was *)
(* derived from, and the intersection tests of bevy_render::primitives     *)
(* are computed from them.                                                 *)
(***************************************************************************)
Abs(x) == IF x < 0 THEN -x ELSE x
Dot(a, b) == a[1] * b[1] + a[2] * b[2] + a[3] * b[3]
Sub(a, b) == <<a[1] - b[1], a[2] - b[2], a[3] - b[3]>>
Origin == <<0, 0, 0>>

\* CUBE_MAP_FACES: the look direction of each cubemap face
CubeMapFaceTarget ==
    << <<1, 0, 0>>, <<-1, 0, 0>>, <<0, 1, 0>>, <<0, -1, 0>>, <<0, 0, 1>>, <<0, 0, -1>> >>
\* the forward direction of a light or camera with the identity rotation
Forward == <<0, 0, -1>>
\* the direction a directional light shines along, as a unit grid vector
LightDown == <<0, -1, 0>>
\* the forward direction of each camera view
ViewForward(v) == IF v = "v1" THEN <<0, 0, -1>> ELSE <<1, 0, 0>>

\* Frustum::default(): six zero half-spaces
DefaultFrustum == [kind |-> "default", o |-> Origin, axis |-> Origin, near |-> 0, far |-> 0]
\* a perspective frustum with apex o looking along axis, 90 degrees wide,
\* with its far plane at distance far
PerspectiveFrustum(o, axis, near, far) ==
    [kind |-> "persp", o |-> o, axis |-> axis, near |-> near, far |-> far]
\* the frustum of one cascade: the box around the slice [near, far] of the
\* view's frustum, seen along the direction down of the light
CascadeFrustum(down, axis, near, far) ==
    [kind |-> "ortho", o |-> Origin, axis |-> axis, near |-> near, far |-> far,
     down |-> down]

\* the largest distance of d from the axis, along the grid directions
Lateral(d, axis) ==
    LET off == {Abs(d[i]) : i \in {j \in 1..3 : axis[j] = 0}}
    IN CHOOSE m \in off : \A x \in off : x <= m

\* Frustum::intersects_obb(aabb, world_from_local, intersect_near, intersect_far)
intersects_obb(frustum, place, intersect_near, intersect_far) ==
    LET d == Sub(place, frustum.o)
        along == Dot(d, frustum.axis)
    IN CASE frustum.kind = "default" -> FALSE
         [] frustum.kind = "persp" ->
              /\ Lateral(d, frustum.axis) <= along
              /\ intersect_near => along >= frustum.near
              /\ intersect_far => along <= frustum.far
         [] frustum.kind = "ortho" ->
              /\ along >= frustum.near
              /\ along <= frustum.far
              /\ \A i \in 1..3 :
                    frustum.axis[i] = 0 /\ frustum.down[i] = 0 => Abs(d[i]) <= frustum.far
              \* the near plane of the box faces the light, the far plane is
              \* the one away from it
              /\ intersect_near => Dot(d, frustum.down) >= -frustum.far
              /\ intersect_far => Dot(d, frustum.down) <= frustum.far

\* Sphere::intersects_obb(aabb, world_from_local)
sphere_intersects_obb(center, radius, place) ==
    LET d == Sub(place, center) IN Dot(d, d) <= radius * radius

\* where a mesh with an Aabb and a GlobalTransform may be
Places ==
    { <<1, 0, 0>>,      \* near the lights: one cubemap face
      <<1, 1, 0>>,      \* near the lights: on the edge of two cubemap faces
      <<0, 0, -1>>,     \* in front of the lights and of view v1
      <<2, 2, 0>>,      \* inside two face frusta, outside the range sphere
      <<0, 5, -1>>,     \* high above: before the near plane of the cascades
      <<0, -9, -1>>,    \* far below: behind the far plane of the cascades
      <<0, 0, -4>> }    \* far in front of view v1

(***************************************************************************)
(* State.                                                                  *)
(***************************************************************************)
VARIABLES
    \* the stage of the frame's pipeline, and how the executor runs the two
    \* classifiers of the CheckLightVisibility set
    stage, sched,
    \* mesh entities: their components (read-only to the systems)
    mesh,
    \* Option<Res<VisibleEntityRanges>>: for each mesh the views it is in range of
    ranges,
    \* lights: shadows_enabled, Option<RenderLayers>, translation, and the
    \* ViewVisibility of the directional lights
    shadows, lightLayers, xlate, dirViewVis,
    \* GlobalTransform of each directional light: translation, rotation (the
    \* direction the light shines along) and scale
    dirTransform,
    \* change detection: the lights whose component or transform changed,
    \* and whether GlobalVisibleClusterableObjects changed
    changed, globalChanged,
    \* VisibleClusterableObjects of each view: a list of light entities
    clusters,
    \* Camera::is_active of each view
    camActive,
    \* CascadeShadowConfig of each directional light
    config,
    \* a CascadeShadowConfigBuilder, and what build returned for it
    builder, built,
    \* a Vec<Entity> handed to shrink_entities: its elements and its capacity
    buffer,
    \* Cascades, CascadesFrusta, CubemapFrusta and the spot lights' Frustum
    cascades, cascadesFrusta, cubemapFrusta, spotFrustum,
    \* CascadesVisibleEntities, CubemapVisibleEntities, VisibleMeshEntities
    cascadesVisible, cubemapVisible, spotVisible,
    \* ViewVisibility of each mesh, and the PreviousVisibleEntities resource
    viewVisibility, previous,
    \* PreviousVisibleEntities and ViewVisibility as they were when the
    \* frame's classification began (history, read by no action)
    previous0, viewVisibility0,
    \* the visible-entity sets at the end of the last frame, when no
    \* component was edited since (history, read by no action)
    sets0,
    \* CubemapFrusta and the spot lights' Frustum as they were when the
    \* frame began (history, read by no action)
    frusta0,
    \* whether the two classifiers were running at the same time in this
    \* frame (history, read by no action)
    overlapped,
    \* the Local<Parallel<..>> queues of the two classifiers, per worker
    cubeQ, spotQ, viewQ, deferQ,
    \* Local<EntityHashSet> checked_lights
    checked,
    \* position of check_dir_light_mesh_visibility and of
    \* check_point_light_mesh_visibility in their loops
    dirPc, ptPc,
    \* the command queue: the closures queued and not yet applied
    commands

inputVars == <<mesh, ranges, shadows, lightLayers, xlate, dirViewVis, dirTransform, changed,
               globalChanged, clusters, camActive, config, builder, built, buffer>>
frustaVars == <<cascades, cascadesFrusta, cubemapFrusta, spotFrustum>>
visibleVars == <<cascadesVisible, cubemapVisible, spotVisible>>
flagVars == <<viewVisibility, previous>>
historyVars == <<previous0, viewVisibility0, sets0, frusta0, overlapped>>
dirLocals == <<viewQ, deferQ>>
ptLocals == <<cubeQ, spotQ, checked>>
vars == <<stage, sched, inputVars, frustaVars, visibleVars, flagVars, historyVars,
          dirLocals, ptLocals, dirPc, ptPc, commands>>

(***************************************************************************)
(* Components of the lights that no edit of the model changes.             *)
(***************************************************************************)
\* PointLight::range and SpotLight::range, in grid units
LightRange == 2
\* shadow_map_near_z, in grid units
ShadowMapNearZ == 1

\* GlobalVisibleClusterableObjects.entities: assign_lights_to_clusters keeps
\* it the union of the views' VisibleClusterableObjects
GlobalLights == UNION {{clusters[v][i] : i \in DOMAIN clusters[v]} : v \in Views}

(***************************************************************************)
(* The queries over the mesh entities.                                     *)
(***************************************************************************)
\* (Without<NotShadowCaster>, Without<DirectionalLight>, With<Mesh3d>)
QueryMatches(e) ==
    /\ mesh[e].mesh3d
    /\ ~mesh[e].nsc
    /\ ~mesh[e].dir
visible_entity_query == {e \in Meshes : QueryMatches(e)}

\* VisibleEntityRanges::entity_is_in_range_of_view
entity_is_in_range_of_view(e, v) == v \in ranges[1][e]
\* VisibleEntityRanges::entity_is_in_range_of_any_view
entity_is_in_range_of_any_view(e) == ranges[1][e] # {}


(***************************************************************************)
(* The closures run by par_iter on one mesh entity.                        *)
(***************************************************************************)
\* the checks before the culling of check_point_light_mesh_visibility, the
\* same for point and spot lights: inherited visibility, render layers,
\* visibility range
PointEligible(l, e) ==
    /\ mesh[e].inherited
    /\ MaskIntersects(unwrap_or_default(lightLayers[l]), unwrap_or_default(mesh[e].layers))
    /\ ~(mesh[e].range /\ ranges # None /\ ~entity_is_in_range_of_any_view(e))

\* (a variant that stops at the first face that sees the entity)
PointFacesFirstHitOnly(l, e) ==
    LET hits == IF ~PointEligible(l, e) THEN {}
                ELSE IF mesh[e].aabb /\ mesh[e].xform
                     THEN IF /\ ~mesh[e].nfc
                             /\ ~sphere_intersects_obb(xlate[l], LightRange, mesh[e].place)
                          THEN {}
                          ELSE {f \in Faces :
                                  \/ mesh[e].nfc
                                  \/ intersects_obb(cubemapFrusta[l][f], mesh[e].place,
                                                    TRUE, TRUE)}
                     ELSE Faces
    IN {f \in hits : \A g \in hits : f <= g}

\* (a variant without the test against the sphere of the light's range)
PointFacesWithoutSphere(l, e) ==
    IF ~PointEligible(l, e) THEN {}
    ELSE IF mesh[e].aabb /\ mesh[e].xform
         THEN {f \in Faces :
                 \/ mesh[e].nfc
                 \/ intersects_obb(cubemapFrusta[l][f], mesh[e].place, TRUE, TRUE)}
         ELSE Faces

\* (a variant that culls the entities without an Aabb or a GlobalTransform)
PointFacesCullingUnbounded(l, e) ==
    IF ~PointEligible(l, e) THEN {}
    ELSE IF mesh[e].aabb /\ mesh[e].xform
         THEN IF /\ ~mesh[e].nfc
                 /\ ~sphere_intersects_obb(xlate[l], LightRange, mesh[e].place)
              THEN {}
              ELSE {f \in Faces :
                      \/ mesh[e].nfc
                      \/ intersects_obb(cubemapFrusta[l][f], mesh[e].place, TRUE, TRUE)}
         ELSE {}

\* the cubemap faces whose local buffer the closure of a point light pushes
\* the entity to; the closure sets ViewVisibility when it pushes
PointFaces(l, e) ==
    IF ~PointEligible(l, e) THEN {}
    ELSE IF mesh[e].aabb /\ mesh[e].xform
         THEN IF /\ ~mesh[e].nfc
                 /\ ~sphere_intersects_obb(xlate[l], LightRange, mesh[e].place)
              THEN {}
              ELSE {f \in Faces :
                      \/ mesh[e].nfc
                      \/ intersects_obb(cubemapFrusta[l][f], mesh[e].place, TRUE, TRUE)}
         ELSE Faces

\* (a variant that tests the sphere of the range for NoFrustumCulling too)
SpotVisibleSphereAlways(l, e) ==
    IF ~PointEligible(l, e) THEN FALSE
    ELSE IF mesh[e].aabb /\ mesh[e].xform
         THEN IF ~sphere_intersects_obb(xlate[l], LightRange, mesh[e].place)
              THEN FALSE
              ELSE \/ mesh[e].nfc
                   \/ intersects_obb(spotFrustum[l], mesh[e].place, TRUE, TRUE)
         ELSE TRUE

\* whether the closure of a spot light pushes the entity to the local buffer
SpotVisible(l, e) ==
    IF ~PointEligible(l, e) THEN FALSE
    ELSE IF mesh[e].aabb /\ mesh[e].xform
         THEN IF /\ ~mesh[e].nfc
                 /\ ~sphere_intersects_obb(xlate[l], LightRange, mesh[e].place)
              THEN FALSE
              ELSE \/ mesh[e].nfc
                   \/ intersects_obb(spotFrustum[l], mesh[e].place, TRUE, TRUE)
         ELSE TRUE

\* (a variant that asks for the range of any view)
DirEligibleInRangeOfAnyView(l, v, e) ==
    /\ mesh[e].inherited
    /\ MaskIntersects(unwrap_or_default(lightLayers[l]), unwrap_or_default(mesh[e].layers))
    /\ ~(mesh[e].range /\ ranges # None /\ ~entity_is_in_range_of_any_view(e))

\* the checks before the culling of check_dir_light_mesh_visibility
DirEligible(l, v, e) ==
    /\ mesh[e].inherited
    /\ MaskIntersects(unwrap_or_default(lightLayers[l]), unwrap_or_default(mesh[e].layers))
    /\ ~(mesh[e].range /\ ranges # None /\ ~entity_is_in_range_of_view(e, v))

\* (a variant that tests the near plane too)
DirCascadesTestingNear(l, v, e, n) ==
    LET view_frusta == cascadesFrusta[l][v][1]
    IN IF ~DirEligible(l, v, e) THEN {}
       ELSE IF mesh[e].aabb /\ mesh[e].xform
            THEN {k \in 1..Min(Len(view_frusta), n) :
                    \/ mesh[e].nfc
                    \/ intersects_obb(view_frusta[k], mesh[e].place, TRUE, TRUE)}
            ELSE 1..n

\* the cascades of view v whose local buffer the closure pushes the entity
\* to, among the n buffers of the worker
DirCascades(l, v, e, n) ==
    LET view_frusta == cascadesFrusta[l][v][1]
    IN IF ~DirEligible(l, v, e) THEN {}
       ELSE IF mesh[e].aabb /\ mesh[e].xform
            THEN {k \in 1..Min(Len(view_frusta), n) :
                    \/ mesh[e].nfc
                    \/ intersects_obb(view_frusta[k], mesh[e].place, FALSE, TRUE)}
            ELSE 1..n

\* whether the closure pushes the entity to the deferred queue
DirDeferred(l, v, e, n) ==
    /\ DirEligible(l, v, e)
    /\ \/ ~(mesh[e].aabb /\ mesh[e].xform)
       \/ DirCascades(l, v, e, n) # {}


(***************************************************************************)
(* The executor.  The two classifiers are in one system set whose order    *)
(* ambiguities are ignored, and their accesses do not conflict: they may   *)
(* run in either order or at the same time.                                *)
(***************************************************************************)
MayStartPoint ==
    CASE sched = "concurrent" -> TRUE
      [] sched = "either_order" -> dirPc.pc \in {"start", "done"}
      [] sched = "dir_first" -> dirPc.pc = "done"
MayStartDir ==
    CASE sched = "concurrent" -> TRUE
      [] sched = "either_order" -> ptPc.pc \in {"start", "done"}
      [] sched = "dir_first" -> TRUE

(***************************************************************************)
(* check_point_light_mesh_visibility                                       *)
(***************************************************************************)
\* the light entities in the order the two nested loops visit them
Listing ==
    LET F[i \in 0..Len(ViewOrder)] ==
          IF i = 0 THEN <<>> ELSE F[i - 1] \o clusters[ViewOrder[i]]
    IN F[Len(ViewOrder)]

EmptyFaces == [f \in Faces |-> EmptyBag]

\* checked_lights.clear()
PointStart ==
    /\ stage = "check"
    /\ ptPc.pc = "start"
    /\ MayStartPoint
    /\ checked' = {}
    /\ ptPc' = [pc |-> "scan", i |-> 1, todo |-> {}]
    /\ overlapped' = (overlapped \/ dirPc.pc \notin {"start", "done"})
    /\ UNCHANGED <<stage, sched, inputVars, frustaVars, visibleVars, flagVars,
                   previous0, viewVisibility0, sets0, frusta0, dirLocals, cubeQ, spotQ, dirPc, commands>>

\* one iteration of the loop over the listed lights, up to the parallel pass
PointVisit ==
    /\ stage = "check"
    /\ ptPc.pc = "scan"
    /\ ptPc.i <= Len(Listing)
    /\ LET light_entity == Listing[ptPc.i]
           skip == [ptPc EXCEPT !.i = @ + 1]
       IN IF light_entity \in checked
          THEN /\ ptPc' = skip
               /\ UNCHANGED <<checked, cubemapVisible, spotVisible>>
          ELSE /\ checked' = checked \cup {light_entity}
               /\ IF light_entity \in PointLights
                  THEN /\ cubemapVisible' = [cubemapVisible EXCEPT ![light_entity] = EmptyFaces]
                       /\ UNCHANGED spotVisible
                       /\ ptPc' = IF ~shadows[light_entity] THEN skip
                                  ELSE [ptPc EXCEPT !.pc = "point",
                                                    !.todo = visible_entity_query]
                  ELSE IF light_entity \in SpotLights
                  THEN /\ spotVisible' = [spotVisible EXCEPT ![light_entity] = EmptyBag]
                       /\ UNCHANGED cubemapVisible
                       /\ ptPc' = IF ~shadows[light_entity] THEN skip
                                  ELSE [ptPc EXCEPT !.pc = "spot",
                                                    !.todo = visible_entity_query]
                  ELSE /\ ptPc' = skip
                       /\ UNCHANGED <<cubemapVisible, spotVisible>>
    /\ UNCHANGED <<stage, sched, inputVars, frustaVars, cascadesVisible, flagVars,
                   historyVars, dirLocals, cubeQ, spotQ, dirPc, commands>>

\* the closure of the parallel pass of a point light, run by worker w on e
\* (a variant that stores the outcome of the face tests in the flag)
PointClosureStoring(w, e) ==
    /\ ptPc.pc = "point"
    /\ e \in ptPc.todo
    /\ LET l == Listing[ptPc.i]
           faces == PointFaces(l, e)
       IN /\ cubeQ' = [cubeQ EXCEPT ![w] =
                         [f \in Faces |-> IF f \in faces THEN BagPush(@[f], e) ELSE @[f]]]
          /\ viewVisibility' = [viewVisibility EXCEPT ![e] = faces # {}]
    /\ ptPc' = [ptPc EXCEPT !.todo = @ \ {e}]
    /\ UNCHANGED <<stage, sched, inputVars, frustaVars, visibleVars, previous,
                   historyVars, dirLocals, spotQ, checked, dirPc, commands>>

PointClosure(w, e) ==
    /\ ptPc.pc = "point"
    /\ e \in ptPc.todo
    /\ LET l == Listing[ptPc.i]
           faces == PointFaces(l, e)
       IN /\ cubeQ' = [cubeQ EXCEPT ![w] =
                         [f \in Faces |-> IF f \in faces THEN BagPush(@[f], e) ELSE @[f]]]
          /\ viewVisibility' = [viewVisibility EXCEPT ![e] = @ \/ faces # {}]
    /\ ptPc' = [ptPc EXCEPT !.todo = @ \ {e}]
    /\ UNCHANGED <<stage, sched, inputVars, frustaVars, visibleVars, previous,
                   historyVars, dirLocals, spotQ, checked, dirPc, commands>>

\* (a variant that forgets the buffer of the last worker)
AllWorkersButLast(q, f) ==
    LET F[n \in 0..NumWorkers - 1] ==
          IF n = 0 THEN EmptyBag ELSE BagAppend(F[n - 1], q[n][f])
    IN F[NumWorkers - 1]

\* the entities of all workers' buffers for one face
AllWorkers(q, f) ==
    LET F[n \in 0..NumWorkers] ==
          IF n = 0 THEN EmptyBag ELSE BagAppend(F[n - 1], q[n][f])
    IN F[NumWorkers]

\* the entities the merge of a point light removes from
\* PreviousVisibleEntities for one buffer of one worker: `for entity in
\* source.iter()` runs before dst.entities.append(source)
PointMergeRemovedAfterAppend(source) == BagMembers(EmptyBag)
\* (a variant that removes every mesh entity)
PointMergeRemovedWithUnseen(source) == Meshes
PointMergeRemoved(source) == BagMembers(source)

\* the merge after the parallel pass of a point light, and shrink_entities
PointMerge ==
    /\ ptPc.pc = "point"
    /\ ptPc.todo = {}
    /\ LET l == Listing[ptPc.i]
       IN /\ previous' = previous \ UNION {PointMergeRemoved(cubeQ[w][f]) : w \in Workers, f \in Faces}
          /\ cubemapVisible' = [cubemapVisible EXCEPT ![l] =
                 [f \in Faces |-> BagAppend(@[f], AllWorkers(cubeQ, f))]]
          /\ cubeQ' = [w \in Workers |-> EmptyFaces]
    /\ ptPc' = [ptPc EXCEPT !.pc = "scan", !.i = @ + 1]
    /\ UNCHANGED <<stage, sched, inputVars, frustaVars, cascadesVisible, spotVisible,
                   viewVisibility, historyVars, dirLocals, spotQ, checked, dirPc, commands>>

\* the closure of the parallel pass of a spot light, run by worker w on e
SpotClosure(w, e) ==
    /\ ptPc.pc = "spot"
    /\ e \in ptPc.todo
    /\ LET l == Listing[ptPc.i]
           hit == SpotVisible(l, e)
       IN /\ spotQ' = [spotQ EXCEPT ![w] = IF hit THEN BagPush(@, e) ELSE @]
          /\ viewVisibility' = [viewVisibility EXCEPT ![e] = @ \/ hit]
    /\ ptPc' = [ptPc EXCEPT !.todo = @ \ {e}]
    /\ UNCHANGED <<stage, sched, inputVars, frustaVars, visibleVars, previous,
                   historyVars, dirLocals, cubeQ, checked, dirPc, commands>>

\* the entities the merge of a spot light removes from PreviousVisibleEntities
\* for one worker's buffer: `for entity in entities` runs after
\* visible_entities.append(entities) has moved every element out of it
SpotMergeRemoved(entities) == BagMembers(EmptyBag)

\* the merge after the parallel pass of a spot light, and shrink_entities
SpotMerge ==
    /\ ptPc.pc = "spot"
    /\ ptPc.todo = {}
    /\ LET l == Listing[ptPc.i]
       IN /\ spotVisible' = [spotVisible EXCEPT ![l] =
                 BagAppend(@, AllWorkers([w \in Workers |-> <<spotQ[w]>>], 1))]
          /\ previous' = previous \ UNION {SpotMergeRemoved(spotQ[w]) : w \in Workers}
          /\ spotQ' = [w \in Workers |-> EmptyBag]
    /\ ptPc' = [ptPc EXCEPT !.pc = "scan", !.i = @ + 1]
    /\ UNCHANGED <<stage, sched, inputVars, frustaVars, cascadesVisible, cubemapVisible,
                   viewVisibility, historyVars, dirLocals, cubeQ, checked, dirPc, commands>>

\* the loops are over: the system returns
PointDone ==
    /\ stage = "check"
    /\ ptPc.pc = "scan"
    /\ ptPc.i > Len(Listing)
    /\ ptPc' = [ptPc EXCEPT !.pc = "done"]
    /\ UNCHANGED <<stage, sched, inputVars, frustaVars, visibleVars, flagVars,
                   historyVars, dirLocals, ptLocals, dirPc, commands>>


(***************************************************************************)
(* check_dir_light_mesh_visibility                                         *)
(***************************************************************************)
\* the directional lights in the iteration order of the query
DirOrder == <<"d1">>

\* the keys of an EntityHashMap, in iteration order
Keys(map) == SelectSeq(ViewOrder, LAMBDA v : map[v] # None)

\* lines 740-759: the persistent per-cascade buffers are resized to the
\* current frusta of each view and cleared, buffers of new views are
\* created, and the views without frusta are removed
\* (a variant that resizes the buffers of a view without clearing them)
ResetCascadeBuffersKeepingEntities(visible_entities, frusta) ==
    [v \in Views |->
        IF frusta[v] = None THEN None
        ELSE IF visible_entities[v] # None
             THEN Some(Resize(visible_entities[v][1], Len(frusta[v][1])))
             ELSE Some([k \in 1..Len(frusta[v][1]) |-> EmptyBag])]

\* (a variant that does not remove the views without frusta)
ResetCascadeBuffersKeepingViews(visible_entities, frusta) ==
    [v \in Views |->
        IF frusta[v] = None THEN visible_entities[v]
        ELSE Some([k \in 1..Len(frusta[v][1]) |-> EmptyBag])]

ResetCascadeBuffers(visible_entities, frusta) ==
    [v \in Views |->
        IF frusta[v] = None THEN None
        ELSE IF visible_entities[v] # None
             THEN Some([k \in 1..Len(frusta[v][1]) |-> EmptyBag])
             ELSE Some([k \in 1..Len(frusta[v][1]) |-> EmptyBag])]

\* the system begins to run
DirStart ==
    /\ stage = "check"
    /\ dirPc.pc = "start"
    /\ MayStartDir
    /\ dirPc' = [dirPc EXCEPT !.pc = "light", !.li = 1]
    /\ overlapped' = (overlapped \/ ptPc.pc \notin {"start", "done"})
    /\ UNCHANGED <<stage, sched, inputVars, frustaVars, visibleVars, flagVars,
                   previous0, viewVisibility0, sets0, frusta0, dirLocals, ptLocals, ptPc, commands>>

\* one iteration of the loop over the directional lights, up to the first
\* parallel pass
DirLight ==
    /\ dirPc.pc = "light"
    /\ dirPc.li <= Len(DirOrder)
    /\ LET l == DirOrder[dirPc.li]
           views == Keys(cascadesFrusta[l])
       IN /\ cascadesVisible' = [cascadesVisible EXCEPT ![l] =
                 ResetCascadeBuffers(@, cascadesFrusta[l])]
          /\ dirPc' = IF ~shadows[l] \/ ~dirViewVis[l] \/ views = <<>>
                      THEN [dirPc EXCEPT !.li = @ + 1]
                      ELSE [dirPc EXCEPT !.pc = "par", !.views = views,
                                         !.todo = visible_entity_query]
    /\ UNCHANGED <<stage, sched, inputVars, frustaVars, cubemapVisible, spotVisible,
                   flagVars, historyVars, dirLocals, ptLocals, ptPc, commands>>

\* (a variant that marks the entity at once, as the point closure does)
DirClosureMarking(w, e) ==
    /\ dirPc.pc = "par"
    /\ e \in dirPc.todo
    /\ LET l == DirOrder[dirPc.li]
           view == Head(dirPc.views)
           n == Len(cascadesFrusta[l][view][1])
           entities == Resize(viewQ[w], n)
           hits == DirCascades(l, view, e, n)
       IN /\ viewQ' = [viewQ EXCEPT ![w] =
                 [k \in 1..n |-> IF k \in hits THEN BagPush(entities[k], e)
                                 ELSE entities[k]]]
          /\ viewVisibility' = [viewVisibility EXCEPT ![e] = @ \/ DirDeferred(l, view, e, n)]
          /\ UNCHANGED <<deferQ, previous>>
    /\ dirPc' = [dirPc EXCEPT !.todo = @ \ {e}]
    /\ UNCHANGED <<stage, sched, inputVars, frustaVars, visibleVars,
                   historyVars, ptLocals, ptPc, commands>>

\* the closure of the parallel pass of one view, run by worker w on e; the
\* worker's buffers are resized when its task starts
DirClosure(w, e) ==
    /\ dirPc.pc = "par"
    /\ e \in dirPc.todo
    /\ LET l == DirOrder[dirPc.li]
           view == Head(dirPc.views)
           n == Len(cascadesFrusta[l][view][1])
           entities == Resize(viewQ[w], n)
           hits == DirCascades(l, view, e, n)
       IN /\ viewQ' = [viewQ EXCEPT ![w] =
                 [k \in 1..n |-> IF k \in hits THEN BagPush(entities[k], e)
                                 ELSE entities[k]]]
          /\ deferQ' = [deferQ EXCEPT ![w] =
                 IF DirDeferred(l, view, e, n) THEN BagPush(@, e) ELSE @]
    /\ dirPc' = [dirPc EXCEPT !.todo = @ \ {e}]
    /\ UNCHANGED <<stage, sched, inputVars, frustaVars, visibleVars, flagVars,
                   historyVars, ptLocals, ptPc, commands>>

\* the destination after the buffers of the first n workers were appended
MergedCascades(dst, q) ==
    LET F[n \in 0..NumWorkers] ==
          IF n = 0 THEN dst ELSE ZipAppendDst(F[n - 1], q[n])
    IN F[NumWorkers]

\* lines 831-842: the workers' buffers of one view are appended to the
\* persistent buffers; after the last view, shrink_entities
DirMerge ==
    /\ dirPc.pc = "par"
    /\ dirPc.todo = {}
    /\ LET l == DirOrder[dirPc.li]
           view == Head(dirPc.views)
           dst == cascadesVisible[l][view][1]
       IN /\ cascadesVisible' = [cascadesVisible EXCEPT ![l][view] =
                 Some(MergedCascades(dst, viewQ))]
          /\ viewQ' = [w \in Workers |-> ZipAppendSrc(dst, viewQ[w])]
    /\ dirPc' = IF Tail(dirPc.views) = <<>>
                THEN [dirPc EXCEPT !.pc = "light", !.li = @ + 1, !.views = <<>>]
                ELSE [dirPc EXCEPT !.views = Tail(@), !.todo = visible_entity_query]
    /\ UNCHANGED <<stage, sched, inputVars, frustaVars, cubemapVisible, spotVisible,
                   flagVars, historyVars, deferQ, ptLocals, ptPc, commands>>

\* lines 853-874: the deferred queue is taken and the command is queued
DirEnd ==
    /\ dirPc.pc = "light"
    /\ dirPc.li > Len(DirOrder)
    /\ commands' = Append(commands, deferQ)
    /\ deferQ' = [w \in Workers |-> EmptyBag]
    /\ dirPc' = [dirPc EXCEPT !.pc = "done"]
    /\ UNCHANGED <<stage, sched, inputVars, frustaVars, visibleVars, flagVars,
                   historyVars, viewQ, ptLocals, ptPc>>

\* (a variant that reads the deferred queue of the first worker only)
CommandEntitiesOfFirstWorker(defer_queue) == BagMembers(defer_queue[1])

\* the entities a queued closure marks: those of every worker's deferred queue
CommandEntities(defer_queue) == UNION {BagMembers(defer_queue[w]) : w \in Workers}

\* (a variant that stores the flags instead of setting them)
ApplyCommandOverwriting ==
    /\ commands # <<>>
    /\ dirPc.pc = "done"
    /\ ptPc.pc \in {"start", "done"}
    /\ LET entities == CommandEntities(Head(commands))
       IN /\ viewVisibility' = [e \in Meshes |-> e \in entities]
          /\ previous' = previous \ entities
    /\ commands' = Tail(commands)
    /\ UNCHANGED <<stage, sched, inputVars, frustaVars, visibleVars, historyVars,
                   dirLocals, ptLocals, dirPc, ptPc>>

\* the command is applied with exclusive access to the world: no system runs
ApplyCommand ==
    /\ commands # <<>>
    /\ dirPc.pc = "done"
    /\ ptPc.pc \in {"start", "done"}
    /\ LET entities == CommandEntities(Head(commands))
       IN /\ viewVisibility' = [e \in Meshes |-> viewVisibility[e] \/ e \in entities]
          /\ previous' = previous \ entities
    /\ commands' = Tail(commands)
    /\ UNCHANGED <<stage, sched, inputVars, frustaVars, visibleVars, historyVars,
                   dirLocals, ptLocals, dirPc, ptPc>>


(***************************************************************************)
(* The systems that run before the classifiers.                            *)
(***************************************************************************)
NoViews == [v \in Views |-> None]

\* (a variant that clears nothing)
clear_directional_light_cascades_keeping ==
    /\ stage = "clear_cascades"
    /\ stage' = "build_cascades"
    /\ UNCHANGED <<sched, inputVars, frustaVars, visibleVars, flagVars, historyVars,
                   dirLocals, ptLocals, dirPc, ptPc, commands>>

clear_directional_light_cascades ==
    /\ stage = "clear_cascades"
    /\ cascades' = [l \in DirLights |-> IF ~shadows[l] THEN cascades[l] ELSE NoViews]
    /\ stage' = "build_cascades"
    /\ UNCHANGED <<sched, inputVars, cascadesFrusta, cubemapFrusta, spotFrustum,
                   visibleVars, flagVars, historyVars, dirLocals, ptLocals, dirPc,
                   ptPc, commands>>

\* (a variant that starts each cascade at the far bound of the one before)
CascadeSliceWithoutOverlap(cascades_config, idx) ==
    [near |-> IF idx > 1
              THEN cascades_config.bounds[idx - 1]
              ELSE cascades_config.minimum_distance,
     far |-> cascades_config.bounds[idx]]

\* the depth slice of cascade idx: z_near and z_far, as distances
CascadeSlice(cascades_config, idx) ==
    [near |-> IF idx > 1
              THEN ((100 - cascades_config.overlap_proportion)
                       * cascades_config.bounds[idx - 1]) \div 100
              ELSE cascades_config.minimum_distance,
     far |-> cascades_config.bounds[idx]]

\* (a variant that takes the whole transform of the light)
world_from_light_with_translation_and_scale(transform) == transform

\* Mat4::from_quat(transform.compute_transform().rotation)
world_from_light(transform) ==
    [translation |-> Origin, rotation |-> transform.rotation, scale |-> 1]

\* calculate_cascade: the cascade of one depth slice, with the matrix of
\* the light its world_from_cascade is formed from
calculate_cascade(slice, light) ==
    [near |-> slice.near, far |-> slice.far, world_from_light |-> light]

\* lines 376-399: the cascades of one view
ViewCascades(transform, cascades_config) ==
    [idx \in 1..Len(cascades_config.bounds) |->
        calculate_cascade(CascadeSlice(cascades_config, idx), world_from_light(transform))]

build_directional_light_cascades ==
    /\ stage = "build_cascades"
    /\ cascades' = [l \in DirLights |->
          IF ~shadows[l] THEN cascades[l]
          ELSE [v \in Views |->
                  IF camActive[v]
                  THEN Some(ViewCascades(dirTransform[l], config[l]))
                  ELSE cascades[l][v]]]
    /\ stage' = "dir_frusta"
    /\ UNCHANGED <<sched, inputVars, cascadesFrusta, cubemapFrusta, spotFrustum,
                   visibleVars, flagVars, historyVars, dirLocals, ptLocals, dirPc,
                   ptPc, commands>>

\* (a variant that keeps the frusta of the views without cascades)
update_directional_light_frusta_keeping_views ==
    /\ stage = "dir_frusta"
    /\ cascadesFrusta' = [l \in DirLights |->
          IF ~shadows[l] \/ ~dirViewVis[l] THEN cascadesFrusta[l]
          ELSE [v \in Views |->
                  IF cascades[l][v] = None THEN cascadesFrusta[l][v]
                  ELSE Some([k \in 1..Len(cascades[l][v][1]) |->
                               CascadeFrustum(
                                   cascades[l][v][1][k].world_from_light.rotation,
                                   ViewForward(v), cascades[l][v][1][k].near,
                                   cascades[l][v][1][k].far)])]]
    /\ stage' = "point_frusta"
    /\ UNCHANGED <<sched, inputVars, cascades, cubemapFrusta, spotFrustum,
                   visibleVars, flagVars, historyVars, dirLocals, ptLocals, dirPc,
                   ptPc, commands>>

update_directional_light_frusta ==
    /\ stage = "dir_frusta"
    /\ cascadesFrusta' = [l \in DirLights |->
          IF ~shadows[l] \/ ~dirViewVis[l] THEN cascadesFrusta[l]
          ELSE [v \in Views |->
                  IF cascades[l][v] = None THEN None
                  ELSE Some([k \in 1..Len(cascades[l][v][1]) |->
                               CascadeFrustum(
                                   cascades[l][v][1][k].world_from_light.rotation,
                                   ViewForward(v), cascades[l][v][1][k].near,
                                   cascades[l][v][1][k].far)])]]
    /\ stage' = "point_frusta"
    /\ UNCHANGED <<sched, inputVars, cascades, cubemapFrusta, spotFrustum,
                   visibleVars, flagVars, historyVars, dirLocals, ptLocals, dirPc,
                   ptPc, commands>>

\* (a variant that rebuilds the frusta of the changed lights only)
update_point_light_frusta_of_changed_lights ==
    /\ stage = "point_frusta"
    /\ cubemapFrusta' = [l \in PointLights |->
          IF l \notin changed THEN cubemapFrusta[l]
          ELSE IF ~shadows[l] \/ l \notin GlobalLights THEN cubemapFrusta[l]
          ELSE [f \in Faces |->
                  PerspectiveFrustum(xlate[l], CubeMapFaceTarget[f], ShadowMapNearZ,
                                     LightRange)]]
    /\ stage' = "spot_frusta"
    /\ UNCHANGED <<sched, inputVars, cascades, cascadesFrusta, spotFrustum,
                   visibleVars, flagVars, historyVars, dirLocals, ptLocals, dirPc,
                   ptPc, commands>>

\* (a variant that drops the frusta of the lights it skips as unchanged)
update_point_light_frusta_dropping_unchanged ==
    /\ stage = "point_frusta"
    /\ cubemapFrusta' = [l \in PointLights |->
          IF ~globalChanged /\ l \notin changed THEN [f \in Faces |-> DefaultFrustum]
          ELSE IF ~shadows[l] \/ l \notin GlobalLights THEN cubemapFrusta[l]
          ELSE [f \in Faces |->
                  PerspectiveFrustum(xlate[l], CubeMapFaceTarget[f], ShadowMapNearZ,
                                     LightRange)]]
    /\ stage' = "spot_frusta"
    /\ UNCHANGED <<sched, inputVars, cascades, cascadesFrusta, spotFrustum,
                   visibleVars, flagVars, historyVars, dirLocals, ptLocals, dirPc,
                   ptPc, commands>>

update_point_light_frusta ==
    /\ stage = "point_frusta"
    /\ cubemapFrusta' = [l \in PointLights |->
          IF ~globalChanged /\ l \notin changed THEN cubemapFrusta[l]
          ELSE IF ~shadows[l] \/ l \notin GlobalLights THEN cubemapFrusta[l]
          ELSE [f \in Faces |->
                  PerspectiveFrustum(xlate[l], CubeMapFaceTarget[f], ShadowMapNearZ,
                                     LightRange)]]
    /\ stage' = "spot_frusta"
    /\ UNCHANGED <<sched, inputVars, cascades, cascadesFrusta, spotFrustum,
                   visibleVars, flagVars, historyVars, dirLocals, ptLocals, dirPc,
                   ptPc, commands>>

update_spot_light_frusta ==
    /\ stage = "spot_frusta"
    /\ spotFrustum' = [l \in SpotLights |->
          IF l \notin changed THEN spotFrustum[l]
          ELSE IF ~shadows[l] \/ l \notin GlobalLights THEN spotFrustum[l]
          ELSE PerspectiveFrustum(xlate[l], Forward, ShadowMapNearZ, LightRange)]
    /\ stage' = "check"
    /\ UNCHANGED <<sched, inputVars, cascades, cascadesFrusta, cubemapFrusta,
                   visibleVars, flagVars, historyVars, dirLocals, ptLocals, dirPc,
                   ptPc, commands>>


(***************************************************************************)
(* The world between two frames: the application edits components, and     *)
(* the visibility systems of bevy_render that run around the classifiers   *)
(* hide the entities left in PreviousVisibleEntities and refill it with    *)
(* the entities that are visible.                                          *)
(***************************************************************************)
\* the lists a view's VisibleClusterableObjects may hold
ClusterLists(v) ==
    IF v = "v1" THEN {<<>>, <<"p1", "s1", "p1">>} ELSE {<<>>, <<"s1">>}

\* the edits of the application: one component of one entity
MeshEdits == [kind : {"nsc", "layers"}, on : {"m1"}]
LightEdits == [kind : {"shadows"}, on : Lights]
                \cup [kind : {"dirvis"}, on : DirLights]
                \cup [kind : {"clusters"}, on : Views]
NoEdit == [kind |-> "none", on |-> "none"]
BasicEdits == {NoEdit} \cup MeshEdits \cup {ed \in LightEdits : ed.kind # "dirvis"}

Toggle(f, x) == [f EXCEPT ![x] = ~@]

\* where an edit moves a point or spot light to, and back from
Moved == <<0, 0, -2>>
\* the edits that decide which frusta of the point and spot lights are
\* rebuilt: shadows_enabled, the transform, the views' cluster lists
MoveEdits ==
    [kind : {"shadows", "move"}, on : PointLights \cup SpotLights]
        \cup [kind : {"clusters"}, on : Views]

\* the configs an edit gives to a directional light, in turn
ConfigChoices ==
    << [bounds |-> <<2, 4>>, overlap_proportion |-> 0, minimum_distance |-> 0],
       [bounds |-> <<2, 4>>, overlap_proportion |-> 50, minimum_distance |-> 1],
       [bounds |-> <<4>>, overlap_proportion |-> 0, minimum_distance |-> 0] >>
NextConfig(c) ==
    LET i == CHOOSE j \in 1..Len(ConfigChoices) : ConfigChoices[j] = c
    IN ConfigChoices[(i % Len(ConfigChoices)) + 1]
\* the edits of the components that the cascades are built from
CascadeEdits ==
    [kind : {"shadows", "dirvis", "config"}, on : DirLights] \cup [kind : {"cam"}, on : Views]

ApplyEdit(ed) ==
    /\ mesh' = CASE ed.kind = "nsc" -> [mesh EXCEPT ![ed.on].nsc = ~@]
                 [] ed.kind = "layers" ->
                      [mesh EXCEPT ![ed.on].layers = IF @ = None THEN Some({1}) ELSE None]
                 [] OTHER -> mesh
    /\ shadows' = IF ed.kind = "shadows" THEN Toggle(shadows, ed.on) ELSE shadows
    /\ dirViewVis' = IF ed.kind = "dirvis" THEN Toggle(dirViewVis, ed.on) ELSE dirViewVis
    /\ clusters' = IF ed.kind = "clusters"
                   THEN [clusters EXCEPT ![ed.on] =
                           CHOOSE c \in ClusterLists(ed.on) : c # @]
                   ELSE clusters
    /\ xlate' = IF ed.kind = "move"
                THEN [xlate EXCEPT ![ed.on] = IF @ = Origin THEN Moved ELSE Origin]
                ELSE xlate
    /\ changed' = IF ed.kind \in {"shadows", "move"} THEN {ed.on} ELSE {}
    /\ sets0' = IF ed = NoEdit
                THEN Some([cascades |-> cascadesVisible, cubemap |-> cubemapVisible,
                           spot |-> spotVisible])
                ELSE None
    /\ camActive' = IF ed.kind = "cam" THEN Toggle(camActive, ed.on) ELSE camActive
    /\ config' = IF ed.kind = "config"
                 THEN [config EXCEPT ![ed.on] = NextConfig(@)]
                 ELSE config
    /\ UNCHANGED <<ranges, lightLayers, dirTransform, builder, built, buffer>>

\* the frame ends and the next one begins, after one edit of edits
NewFrame(edits) ==
    /\ stage = "check"
    /\ dirPc.pc = "done"
    /\ ptPc.pc = "done"
    /\ commands = <<>>
    /\ \E ed \in edits : ApplyEdit(ed)
    /\ globalChanged' =
          (UNION {{clusters'[v][i] : i \in DOMAIN clusters'[v]} : v \in Views} # GlobalLights)
    /\ LET visible == [e \in Meshes |-> viewVisibility[e] /\ e \notin previous]
       IN /\ viewVisibility' = visible
          /\ previous' = {e \in Meshes : visible[e]}
          /\ viewVisibility0' = visible
          /\ previous0' = {e \in Meshes : visible[e]}
    /\ frusta0' = [cubemap |-> cubemapFrusta, spot |-> spotFrustum]
    /\ overlapped' = FALSE
    /\ stage' = "clear_cascades"
    /\ dirPc' = [pc |-> "start", li |-> 1, views |-> <<>>, todo |-> {}]
    /\ ptPc' = [pc |-> "start", i |-> 1, todo |-> {}]
    /\ UNCHANGED <<sched, frustaVars, visibleVars, dirLocals, ptLocals, commands>>

(***************************************************************************)
(* CascadeShadowConfigBuilder.  The f32 distances are fixed-point numbers, *)
(* in tenths; overlap_proportion is in hundredths.                         *)
(***************************************************************************)
Pow(x, k) ==
    LET P[n \in 0..k] == IF n = 0 THEN 1 ELSE x * P[n - 1]
    IN P[k]
\* powf(x, 1 / k), rounded down
Root(x, k) == CHOOSE r \in 0..x : Pow(r, k) <= x /\ x < Pow(r + 1, k)

\* nearest_bound * powf(base, i) with base = powf(maximum / nearest, 1 / (n - 1)),
\* for i = idx - 1
calculate_cascade_bounds(num_cascades, nearest_bound, shadow_maximum_distance) ==
    IF num_cascades = 1 THEN <<shadow_maximum_distance>>
    ELSE [idx \in 1..num_cascades |->
            Root(Pow(nearest_bound, num_cascades - idx)
                    * Pow(shadow_maximum_distance, idx - 1),
                 num_cascades - 1)]

\* the assertion on first_cascade_far_bound
\* (a variant that asserts it for one cascade too)
FirstBoundAssertedAlways(b) == b.minimum_distance < b.first_cascade_far_bound
FirstBoundAsserted(b) ==
    b.num_cascades = 1 \/ b.minimum_distance < b.first_cascade_far_bound

\* (a variant without the assertion on overlap_proportion)
buildWithoutOverlapAssertion(b) ==
    IF ~(b.num_cascades > 0) THEN None
    ELSE IF ~(b.minimum_distance >= 0) THEN None
    ELSE IF ~FirstBoundAsserted(b) THEN None
    ELSE IF ~(b.maximum_distance > b.minimum_distance) THEN None
    ELSE Some([bounds |-> calculate_cascade_bounds(b.num_cascades,
                                                   b.first_cascade_far_bound,
                                                   b.maximum_distance),
               overlap_proportion |-> b.overlap_proportion,
               minimum_distance |-> b.minimum_distance])

\* CascadeShadowConfigBuilder::build: the config, or none where it panics
build(b) ==
    IF ~(b.num_cascades > 0) THEN None
    ELSE IF ~(b.minimum_distance >= 0) THEN None
    ELSE IF ~FirstBoundAsserted(b) THEN None
    ELSE IF ~(b.maximum_distance > b.minimum_distance) THEN None
    ELSE IF ~(0 <= b.overlap_proportion /\ b.overlap_proportion < 100) THEN None
    ELSE Some([bounds |-> calculate_cascade_bounds(b.num_cascades,
                                                   b.first_cascade_far_bound,
                                                   b.maximum_distance),
               overlap_proportion |-> b.overlap_proportion,
               minimum_distance |-> b.minimum_distance])

\* the application builds a config
build_config ==
    /\ stage = "build_config"
    /\ built' = build(builder)
    /\ stage' = "config_built"
    /\ UNCHANGED <<sched, mesh, ranges, shadows, lightLayers, xlate, dirViewVis,
                   dirTransform, changed, globalChanged, clusters, camActive, config, builder,
                   buffer, frustaVars,
                   visibleVars, flagVars, historyVars, dirLocals, ptLocals, dirPc, ptPc,
                   commands>>

\* CascadeShadowConfigBuilder::default(), without the webgl feature
DefaultBuilder ==
    [num_cascades |-> 4, minimum_distance |-> 1, maximum_distance |-> 1500,
     first_cascade_far_bound |-> 100, overlap_proportion |-> 20]

(***************************************************************************)
(* shrink_entities.  A Vec<Entity> is its elements and its capacity.       *)
(***************************************************************************)
\* Vec::new()
NewVec == [entities |-> <<>>, capacity |-> 0]

\* Vec::shrink_to(min_capacity): a capacity above min_capacity becomes the
\* larger of the length and min_capacity; the elements stay
shrink_to(vec, min_capacity) ==
    IF vec.capacity > min_capacity
    THEN [vec EXCEPT !.capacity = IF Len(vec.entities) > min_capacity
                                  THEN Len(vec.entities) ELSE min_capacity]
    ELSE vec

\* usize arithmetic: checked_div is None for a length of 0, and `/` rounds
\* down
shrink_entities(visible_entities) ==
    LET capacity == visible_entities.capacity
        len == Len(visible_entities.entities)
        reserved == IF len = 0 THEN 0
                    ELSE LET reserve == capacity \div len
                         IN IF reserve > 2 THEN capacity \div (reserve \div 2)
                            ELSE capacity
    IN shrink_to(visible_entities, reserved)

\* shrink_entities is called on a buffer
shrink ==
    /\ stage = "shrink"
    /\ buffer' = shrink_entities(buffer)
    /\ stage' = "shrunk"
    /\ UNCHANGED <<sched, mesh, ranges, shadows, lightLayers, xlate, dirViewVis,
                   dirTransform, changed, globalChanged, clusters, camActive, config, builder,
                   built, frustaVars, visibleVars, flagVars, historyVars, dirLocals,
                   ptLocals, dirPc, ptPc, commands>>

(***************************************************************************)
(* The initial world.                                                      *)
(***************************************************************************)
BaseMesh ==
    [mesh3d |-> TRUE, nsc |-> FALSE, dir |-> FALSE, inherited |-> TRUE,
     layers |-> None, aabb |-> TRUE, xform |-> TRUE, range |-> FALSE,
     nfc |-> FALSE, place |-> <<0, 0, -1>>]
\* a mesh without an Aabb
UnboundedMesh == [BaseMesh EXCEPT !.aabb = FALSE]


\* the state of the components and locals that the systems write, after
\* construction
InitComponents(first_stage, schedule) ==
    /\ stage = first_stage
    /\ sched = schedule
    /\ changed = Lights
    /\ globalChanged = TRUE
    /\ cascades = [l \in DirLights |-> NoViews]
    /\ cascadesFrusta = [l \in DirLights |-> NoViews]
    /\ cubemapFrusta = [l \in PointLights |-> [f \in Faces |-> DefaultFrustum]]
    /\ spotFrustum = [l \in SpotLights |-> DefaultFrustum]
    /\ frusta0 = [cubemap |-> [l \in PointLights |-> [f \in Faces |-> DefaultFrustum]],
                  spot |-> [l \in SpotLights |-> DefaultFrustum]]
    /\ cascadesVisible = [l \in DirLights |-> NoViews]
    /\ cubemapVisible = [l \in PointLights |-> EmptyFaces]
    /\ spotVisible = [l \in SpotLights |-> EmptyBag]
    /\ cubeQ = [w \in Workers |-> EmptyFaces]
    /\ spotQ = [w \in Workers |-> EmptyBag]
    /\ viewQ = [w \in Workers |-> <<>>]
    /\ deferQ = [w \in Workers |-> EmptyBag]
    /\ checked = {}
    /\ dirPc = [pc |-> "start", li |-> 1, views |-> <<>>, todo |-> {}]
    /\ ptPc = [pc |-> "start", i |-> 1, todo |-> {}]
    /\ commands = <<>>
\* the same, for a world whose frames are about to run and in which no
\* config is being built
InitWritten(schedule) ==
    /\ InitComponents("clear_cascades", schedule)
    /\ builder = DefaultBuilder
    /\ built = None
    /\ buffer = NewVec

\* the lights and views of the initial world
InitLightInputs ==
    /\ xlate = [l \in PointLights \cup SpotLights |-> Origin]
    /\ dirViewVis = [l \in DirLights |-> TRUE]
    /\ clusters = [v \in Views |-> IF v = "v1" THEN <<"p1", "s1", "p1">> ELSE <<"s1">>]
    /\ camActive = [v \in Views |-> TRUE]
    /\ config = [l \in DirLights |-> ConfigChoices[1]]
\* the same, with the directional lights at the origin, unscaled
InitLights ==
    /\ InitLightInputs
    /\ dirTransform =
          [l \in DirLights |-> [translation |-> Origin, rotation |-> LightDown, scale |-> 1]]

\* ViewVisibility and PreviousVisibleEntities when the classifiers begin:
\* the entities visible in the last frame are in PreviousVisibleEntities
\* until a visibility system finds them again
InitFlags(flags) ==
    /\ viewVisibility \in flags
    /\ previous \in SUBSET {e \in Meshes : viewVisibility[e]}
    /\ viewVisibility0 = viewVisibility
    /\ previous0 = previous
    /\ sets0 = None
    /\ overlapped = FALSE

\* a fresh world: nothing was visible yet, every light casts shadows
Init ==
    /\ InitWritten("either_order")
    /\ InitLights
    /\ InitFlags({[e \in Meshes |-> FALSE]})
    /\ mesh = [e \in Meshes |-> IF e = "m1" THEN BaseMesh ELSE UnboundedMesh]
    /\ ranges = None
    /\ shadows = [l \in Lights |-> TRUE]
    /\ lightLayers = [l \in Lights |-> None]

\* the worlds of the one-frame model with concurrent classifiers
ParMeshes(e) ==
    IF e = "m1"
    \* at <<-1, 0, 1>> the mesh is behind both cameras, out of every cascade
    THEN {BaseMesh, [BaseMesh EXCEPT !.place = <<-1, 0, 1>>], [BaseMesh EXCEPT !.nsc = TRUE]}
    ELSE {UnboundedMesh, [BaseMesh EXCEPT !.place = <<0, 0, -4>>]}
ParShadows == {[l \in Lights |-> TRUE], [l \in Lights |-> l # "p1"]}

InitPar ==
    /\ InitWritten("concurrent")
    /\ InitLights
    /\ InitFlags([Meshes -> BOOLEAN])
    /\ mesh \in [Meshes -> UNION {ParMeshes(e) : e \in Meshes}]
    /\ \A e \in Meshes : mesh[e] \in ParMeshes(e)
    /\ ranges = None
    /\ shadows \in ParShadows
    /\ lightLayers = [l \in Lights |-> None]

\* the worlds of the one-frame model with every combination of components
\* on mesh m1
WideMeshes ==
    {m \in [mesh3d : BOOLEAN, nsc : BOOLEAN, dir : BOOLEAN, inherited : BOOLEAN,
            layers : {None, Some({0}), Some({1})}, aabb : BOOLEAN, xform : BOOLEAN,
            range : BOOLEAN, nfc : BOOLEAN, place : Places] :
        \* the place and NoFrustumCulling are read only with an Aabb and a transform
        ~(m.aabb /\ m.xform) => m.place = BaseMesh.place /\ ~m.nfc}
WideRanges ==
    {None, Some([e \in Meshes |-> {}]), Some([e \in Meshes |-> {"v1"}])}
WideLayers ==
    {[l \in Lights |-> None], [l \in Lights |-> IF l = "s1" THEN None ELSE Some({1})]}

InitWide ==
    /\ InitWritten("dir_first")
    /\ InitLights
    /\ InitFlags({[e \in Meshes |-> FALSE]})
    /\ mesh \in [Meshes -> WideMeshes \cup {UnboundedMesh}]
    /\ mesh["m1"] \in WideMeshes
    /\ mesh["m2"] = UnboundedMesh
    /\ ranges \in WideRanges
    \* the resource is read only for an entity with a VisibilityRange
    /\ ~mesh["m1"].range => ranges = None
    /\ shadows = [l \in Lights |-> TRUE]
    /\ lightLayers \in WideLayers

(***************************************************************************)
(* Specifications.                                                         *)
(***************************************************************************)
PreStep ==
    \/ clear_directional_light_cascades
    \/ build_directional_light_cascades
    \/ update_directional_light_frusta
    \/ update_point_light_frusta
    \/ update_spot_light_frusta

DirStep ==
    \/ DirStart
    \/ DirLight
    \/ \E w \in Workers, e \in Meshes : DirClosure(w, e)
    \/ DirMerge
    \/ DirEnd

PointStep ==
    \/ PointStart
    \/ PointVisit
    \/ \E w \in Workers, e \in Meshes : PointClosure(w, e)
    \/ PointMerge
    \/ \E w \in Workers, e \in Meshes : SpotClosure(w, e)
    \/ SpotMerge
    \/ PointDone

\* one frame
NextFrame ==
    \/ PreStep
    \/ PointStep
    \/ DirStep
    \/ ApplyCommand

\* the frames of an application that edits the world between them
Next ==
    \/ NextFrame
    \/ NewFrame(BasicEdits)

\* frame after frame; the two classifiers run one after the other, in
\* either order
Spec == Init /\ [][Next]_vars

\* one frame; the two classifiers run concurrently, a step at a time
SpecPar == InitPar /\ [][NextFrame]_vars

\* one frame of each world of InitWide; the point and spot classifier runs
\* after the directional one
SpecWide == InitWide /\ [][NextFrame]_vars

\* frame after frame with edits of the directional lights' components and of
\* the cameras; one entity is a mesh
InitCascade ==
    /\ InitWritten("dir_first")
    /\ InitLights
    /\ InitFlags({[e \in Meshes |-> FALSE]})
    /\ mesh = [e \in Meshes |->
                 IF e = "m1" THEN BaseMesh ELSE [BaseMesh EXCEPT !.mesh3d = FALSE]]
    /\ ranges = None
    /\ shadows = [l \in Lights |-> TRUE]
    /\ lightLayers = [l \in Lights |-> None]

SpecCascade == InitCascade /\ [][NextFrame \/ NewFrame(CascadeEdits)]_vars

\* frame after frame with edits of the point and spot lights; one entity is
\* a mesh
SpecMove == InitCascade /\ [][NextFrame \/ NewFrame(MoveEdits)]_vars

\* one frame of each world whose directional light has one of the
\* transforms of DirTransforms
DirTransforms ==
    [translation : {Origin, <<0, 3, 0>>}, rotation : {LightDown, Forward}, scale : {1, 2}]

InitLight ==
    /\ InitWritten("dir_first")
    /\ InitLightInputs
    /\ dirTransform \in [DirLights -> DirTransforms]
    /\ InitFlags({[e \in Meshes |-> FALSE]})
    /\ mesh = [e \in Meshes |-> IF e = "m1" THEN BaseMesh ELSE UnboundedMesh]
    /\ ranges = None
    /\ shadows = [l \in Lights |-> TRUE]
    /\ lightLayers = [l \in Lights |-> None]

SpecLight == InitLight /\ [][NextFrame \/ NewFrame({ed \in CascadeEdits : ed.kind = "config"})]_vars

\* one frame of each world whose directional light has a config the
\* application wrote field by field: `bounds` is a public Vec, here with two
\* distances or with none
DirectConfigs ==
    {ConfigChoices[1],
     [bounds |-> <<>>, overlap_proportion |-> 0, minimum_distance |-> 0]}

InitDirect ==
    /\ InitWritten("dir_first")
    /\ xlate = [l \in PointLights \cup SpotLights |-> Origin]
    /\ dirViewVis = [l \in DirLights |-> TRUE]
    /\ clusters = [v \in Views |-> IF v = "v1" THEN <<"p1", "s1", "p1">> ELSE <<"s1">>]
    /\ camActive = [v \in Views |-> TRUE]
    /\ config \in [DirLights -> DirectConfigs]
    /\ dirTransform =
          [l \in DirLights |-> [translation |-> Origin, rotation |-> LightDown, scale |-> 1]]
    /\ InitFlags([Meshes -> BOOLEAN])
    /\ mesh = [e \in Meshes |-> IF e = "m1" THEN BaseMesh ELSE UnboundedMesh]
    /\ ranges = None
    /\ shadows = [l \in Lights |-> TRUE]
    /\ lightLayers = [l \in Lights |-> None]

SpecDirect == InitDirect /\ [][NextFrame]_vars

\* the builders the application may fill in
CascadeCounts == 0..MaxCascades
Distances == {-10, 0, 10, 20, 40}
Proportions == {-10, 0, 50, 100}
Builders ==
    [num_cascades : CascadeCounts, minimum_distance : Distances,
     maximum_distance : Distances, first_cascade_far_bound : Distances,
     overlap_proportion : Proportions]

InitBuild ==
    /\ InitComponents("build_config", "either_order")
    /\ InitLights
    /\ InitFlags({[e \in Meshes |-> FALSE]})
    /\ mesh = [e \in Meshes |-> BaseMesh]
    /\ ranges = None
    /\ shadows = [l \in Lights |-> TRUE]
    /\ lightLayers = [l \in Lights |-> None]
    /\ builder \in Builders
    /\ built = None
    /\ buffer = NewVec

\* CascadeShadowConfigBuilder::build applied to each builder
SpecBuild == InitBuild /\ [][build_config]_vars

\* the buffers shrink_entities may be handed: up to MaxLen entities in any
\* order, with repetitions, and a capacity from the length up to MaxCapacity
Buffers ==
    {vec \in [entities : UNION {[1..n -> Meshes] : n \in 0..MaxLen},
              capacity : 0..MaxCapacity] : vec.capacity >= Len(vec.entities)}

InitShrink ==
    /\ InitComponents("shrink", "either_order")
    /\ InitLights
    /\ InitFlags({[e \in Meshes |-> FALSE]})
    /\ mesh = [e \in Meshes |-> BaseMesh]
    /\ ranges = None
    /\ shadows = [l \in Lights |-> TRUE]
    /\ lightLayers = [l \in Lights |-> None]
    /\ builder = DefaultBuilder
    /\ built = None
    /\ buffer \in Buffers

\* shrink_entities applied to each buffer
SpecShrink == InitShrink /\ [][shrink]_vars

(***************************************************************************)
(* Vocabulary of the properties.                                           *)
(***************************************************************************)
\* the classifiers have returned
PointReturned == stage = "check" /\ ptPc.pc = "done"
DirReturned == stage = "check" /\ dirPc.pc = "done"
\* the frame's classification is over: both classifiers have returned and
\* the deferred command was applied
FrameDone == PointReturned /\ DirReturned /\ commands = <<>>

\* the views a directional light has per-cascade sets for
SetViews(l) == {v \in Views : cascadesVisible[l][v] # None}
\* the entities in the visible-entity sets of a light
PointMembers(l, f) == BagMembers(cubemapVisible[l][f])
SpotMembers(l) == BagMembers(spotVisible[l])
CascadeMembers(l, v, k) == BagMembers(cascadesVisible[l][v][1][k])
DirMembers(l) ==
    UNION {CascadeMembers(l, v, k) : <<v, k>> \in
             {vk \in SetViews(l) \X (1..4) : vk[2] <= Len(cascadesVisible[l][vk[1]][1])}}
Members(l) ==
    IF l \in PointLights THEN UNION {PointMembers(l, f) : f \in Faces}
    ELSE IF l \in SpotLights THEN SpotMembers(l)
    ELSE DirMembers(l)

\* the lights check_point_light_mesh_visibility visits: those listed in some
\* view's VisibleClusterableObjects
Listed(l) == \E v \in Views : \E i \in DOMAIN clusters[v] : clusters[v][i] = l
\* the lights whose mesh entities a frame classifies
Classified(l) ==
    IF l \in DirLights THEN shadows[l] /\ dirViewVis[l]
    ELSE shadows[l] /\ Listed(l)

\* the render-layer masks of a light and an entity share a layer
LayersMeet(l, e) ==
    \E layer \in 0..1 :
        /\ layer \in (IF lightLayers[l] = None THEN {0} ELSE lightLayers[l][1])
        /\ layer \in (IF mesh[e].layers = None THEN {0} ELSE mesh[e].layers[1])

(***************************************************************************)
(* C1. At the end of every frame's classification no entity carrying       *)
(* NotShadowCaster is a member of any visible-entity set of any light.     *)
(* Fails: the sets of a point or spot light that is in no view's           *)
(* VisibleClusterableObjects keep the entities of the last frame it was    *)
(* classified in.                                                          *)
(***************************************************************************)
C1_NotShadowCasterInNoSet ==
    FrameDone => \A l \in Lights : \A e \in Meshes : mesh[e].nsc => e \notin Members(l)

\* what holds: no entity carrying NotShadowCaster is in a set of a light
\* the frame classified
NotShadowCasterInNoClassifiedSet ==
    FrameDone =>
        \A l \in Lights : \A e \in Meshes :
            Classified(l) /\ mesh[e].nsc => e \notin Members(l)

(***************************************************************************)
(* C2. An entity whose render-layer mask does not intersect a light's is   *)
(* in no visible-entity set of that light after classification.            *)
(* Fails for the same reason as C1.                                        *)
(***************************************************************************)
C2_DisjointLayersInNoSet ==
    FrameDone => \A l \in Lights : \A e \in Meshes : ~LayersMeet(l, e) => e \notin Members(l)

\* what holds: the same for the lights the frame classified
DisjointLayersInNoClassifiedSet ==
    FrameDone =>
        \A l \in Lights : \A e \in Meshes :
            Classified(l) /\ ~LayersMeet(l, e) => e \notin Members(l)

\* the eligibility filters that do not depend on the light
Candidate(e) ==
    /\ mesh[e].mesh3d
    /\ ~mesh[e].nsc
    /\ ~mesh[e].dir
    /\ mesh[e].inherited
\* the entity lacks an Aabb or a GlobalTransform
Unbounded(e) == ~mesh[e].aabb \/ ~mesh[e].xform
\* the visibility range of the entity is satisfied, for some view and for
\* one view
InRangeOfSomeView(e) == mesh[e].range /\ ranges # None => \E v \in Views : v \in ranges[1][e]
InRangeOfView(e, v) == mesh[e].range /\ ranges # None => v \in ranges[1][e]

(***************************************************************************)
(* C3. For every light a frame classifies, an entity that passes the       *)
(* eligibility filters and lacks an Aabb or a GlobalTransform is in every  *)
(* frustum set of the light: the 6 cubemap faces, the spot set, every      *)
(* cascade of every view (of the views the entity is in range of).         *)
(***************************************************************************)
C3_UnboundedInEveryFrustumSet ==
    FrameDone =>
        \A e \in Meshes : \A l \in Lights :
            Candidate(e) /\ Unbounded(e) /\ Classified(l) /\ LayersMeet(l, e) =>
                /\ l \in PointLights /\ InRangeOfSomeView(e) =>
                       \A f \in Faces : e \in PointMembers(l, f)
                /\ l \in SpotLights /\ InRangeOfSomeView(e) => e \in SpotMembers(l)
                /\ l \in DirLights =>
                       \A v \in Views :
                           cascadesFrusta[l][v] # None /\ InRangeOfView(e, v) =>
                               /\ v \in SetViews(l)
                               /\ \A k \in 1..Len(cascadesFrusta[l][v][1]) :
                                      /\ k <= Len(cascadesVisible[l][v][1])
                                      /\ e \in CascadeMembers(l, v, k)

\* a frame classified the three lights, and an entity with an Aabb and no
\* GlobalTransform is in the sets of all of them
C3_Witness ==
    /\ FrameDone
    /\ \A l \in Lights : Classified(l)
    /\ \E e \in Meshes :
          /\ Candidate(e) /\ mesh[e].aabb /\ ~mesh[e].xform
          /\ \A f \in Faces : e \in PointMembers("p1", f)
          /\ e \in SpotMembers("s1")
          /\ \A v \in Views :
                /\ v \in SetViews("d1")
                /\ Len(cascadesVisible["d1"][v][1]) >= 2
                /\ \A k \in 1..Len(cascadesVisible["d1"][v][1]) : e \in CascadeMembers("d1", v, k)

(***************************************************************************)
(* C4. After a frame's classification every light with shadows_enabled =   *)
(* false has all its visible-entity sets empty, listed in a view's         *)
(* VisibleClusterableObjects or not.                                       *)
(* Fails: a point or spot light no view lists is not visited, and its sets *)
(* are not cleared.                                                        *)
(***************************************************************************)
C4_DisabledLightHasEmptySets ==
    FrameDone => \A l \in Lights : ~shadows[l] => Members(l) = {}

\* what holds: the same for the directional lights and for the point and
\* spot lights some view lists
DisabledVisitedLightHasEmptySets ==
    FrameDone =>
        \A l \in Lights : ~shadows[l] /\ (l \in DirLights \/ Listed(l)) => Members(l) = {}

(***************************************************************************)
(* C5. After check_point_light_mesh_visibility every member of the set of  *)
(* a spot light the run classified has its ViewVisibility flag set and is  *)
(* not in PreviousVisibleEntities.                                         *)
(* Fails: the merge appends a worker's buffer to the set, which empties    *)
(* the buffer, before it iterates the buffer to remove its entities.       *)
(***************************************************************************)
C5_SpotMembersMarkedAndNotPrevious ==
    PointReturned =>
        \A l \in SpotLights : Classified(l) =>
            \A e \in SpotMembers(l) : viewVisibility[e] /\ e \notin previous

\* what holds: the members have their ViewVisibility flag set
SpotMembersMarked ==
    PointReturned =>
        \A l \in SpotLights : Classified(l) =>
            \A e \in SpotMembers(l) : viewVisibility[e]

(***************************************************************************)
(* C6. After check_point_light_mesh_visibility every member of a face set  *)
(* of a point light the run classified has its ViewVisibility flag set and *)
(* is not in PreviousVisibleEntities.                                      *)
(***************************************************************************)
C6_PointMembersMarkedAndNotPrevious ==
    PointReturned =>
        \A l \in PointLights : Classified(l) =>
            \A f \in Faces : \A e \in PointMembers(l, f) :
                viewVisibility[e] /\ e \notin previous

\* the run found in a face set of the point light an entity of the last
\* frame's PreviousVisibleEntities and an entity whose flag was not set,
\* before the deferred command of the directional classifier was applied
C6_Witness ==
    /\ PointReturned
    /\ ~(DirReturned /\ commands = <<>>)
    /\ Classified("p1")
    /\ \E e \in previous0 : \E f \in Faces :
          e \in PointMembers("p1", f) /\ e \notin previous
    /\ \E e \in Meshes : \E f \in Faces :
          e \in PointMembers("p1", f) /\ ~viewVisibility0[e] /\ viewVisibility[e]

(***************************************************************************)
(* C7. Once the command check_dir_light_mesh_visibility queued is applied, *)
(* every member of a per-cascade set of a directional light the run        *)
(* classified has its ViewVisibility flag set and is not in                *)
(* PreviousVisibleEntities.                                                *)
(***************************************************************************)
C7_CascadeMembersMarkedAndNotPrevious ==
    DirReturned /\ commands = <<>> =>
        \A l \in DirLights : Classified(l) =>
            \A e \in DirMembers(l) : viewVisibility[e] /\ e \notin previous

\* the command was applied before the point and spot classifier ran; a
\* per-cascade set holds an entity of the last frame's
\* PreviousVisibleEntities and an entity whose flag was not set
C7_Witness ==
    /\ DirReturned
    /\ commands = <<>>
    /\ ptPc.pc = "start"
    /\ Classified("d1")
    /\ \E e \in previous0 : e \in DirMembers("d1") /\ e \notin previous
    /\ \E e \in Meshes :
          e \in DirMembers("d1") /\ ~viewVisibility0[e] /\ viewVisibility[e]

(***************************************************************************)
(* C8. check_dir_light_mesh_visibility writes no ViewVisibility flag and   *)
(* leaves PreviousVisibleEntities unchanged; from its start to the         *)
(* application of its command the two change only by a step of the point   *)
(* and spot classifier.                                                    *)
(***************************************************************************)
\* the directional classifier has begun and its command is not applied yet
DirPending == dirPc.pc \in {"light", "par"} \/ (dirPc.pc = "done" /\ commands # <<>>)

C8_DirClassifierWritesNoFlags ==
    [][/\ dirPc' # dirPc => viewVisibility' = viewVisibility /\ previous' = previous
       /\ DirPending /\ <<viewVisibility', previous'>> # <<viewVisibility, previous>> =>
              \/ ptPc' # ptPc
              \/ dirPc.pc = "done" /\ commands' = Tail(commands)]_vars

\* the directional classifier returned before the other one began: the
\* command is queued with an entity of PreviousVisibleEntities and an
\* entity whose flag is not set, and the flags are those of the start
C8_Witness ==
    /\ DirReturned
    /\ commands # <<>>
    /\ ptPc.pc = "start"
    /\ viewVisibility = viewVisibility0
    /\ previous = previous0
    /\ \E e \in CommandEntities(Head(commands)) : ~viewVisibility[e]
    /\ \E e \in CommandEntities(Head(commands)) : e \in previous

(***************************************************************************)
(* What a frame's classification computes from the components, whatever    *)
(* the schedule.                                                           *)
(***************************************************************************)
Indicator(cond) == IF cond THEN 1 ELSE 0
ExpectedCubemap(l) ==
    [f \in Faces |-> [e \in Meshes |->
        Indicator(Classified(l) /\ QueryMatches(e) /\ f \in PointFaces(l, e))]]
ExpectedSpot(l) ==
    [e \in Meshes |-> Indicator(Classified(l) /\ QueryMatches(e) /\ SpotVisible(l, e))]
ExpectedCascades(l) ==
    [v \in Views |->
        IF cascadesFrusta[l][v] = None THEN None
        ELSE LET n == Len(cascadesFrusta[l][v][1])
             IN Some([k \in 1..n |-> [e \in Meshes |->
                    Indicator(Classified(l) /\ QueryMatches(e)
                              /\ k \in DirCascades(l, v, e, n))]])]
\* the entities the classifiers find visible
SeenByPoint ==
    {e \in visible_entity_query :
        \E l \in PointLights : Classified(l) /\ PointFaces(l, e) # {}}
SeenBySpot ==
    {e \in visible_entity_query : \E l \in SpotLights : Classified(l) /\ SpotVisible(l, e)}
SeenByDir ==
    {e \in visible_entity_query :
        \E l \in DirLights : \E v \in Views :
            /\ Classified(l)
            /\ cascadesFrusta[l][v] # None
            /\ DirDeferred(l, v, e, Len(cascadesFrusta[l][v][1]))}

(***************************************************************************)
(* C9. For fixed inputs the two classifiers, run in either order or with   *)
(* their steps interleaved, and then the deferred command, end in the same *)
(* state: the sets, the ViewVisibility flags and PreviousVisibleEntities   *)
(* are a function of the inputs.  (The entities a spot light alone sees    *)
(* stay in PreviousVisibleEntities in every schedule, see C5.)             *)
(***************************************************************************)
C9_EndStateIndependentOfSchedule ==
    FrameDone =>
        /\ \A l \in PointLights : cubemapVisible[l] = ExpectedCubemap(l)
        /\ \A l \in SpotLights : spotVisible[l] = ExpectedSpot(l)
        /\ \A l \in DirLights : cascadesVisible[l] = ExpectedCascades(l)
        /\ viewVisibility =
              [e \in Meshes |->
                  viewVisibility0[e] \/ e \in SeenByPoint \cup SeenBySpot \cup SeenByDir]
        /\ previous = previous0 \ (SeenByPoint \cup SeenByDir)

\* a frame in which the two classifiers ran at the same time ended; the
\* point classifier alone saw an entity, the directional one alone saw
\* another, and both were in PreviousVisibleEntities
C9_Witness ==
    /\ FrameDone
    /\ overlapped
    /\ \E e \in SeenByPoint \ SeenByDir : e \in previous0 /\ e \notin previous
    /\ \E e \in SeenByDir \ (SeenByPoint \cup SeenBySpot) : e \in previous0 /\ e \notin previous

(***************************************************************************)
(* C10. The membership of every set a classifier produces is the same for  *)
(* every partition of the mesh entities across the workers: during a       *)
(* parallel pass the workers push to their own buffers only (the set is    *)
(* untouched, and the buffers together hold the entities processed so far  *)
(* that the frustum sees, once each); after the merge the set of frustum k *)
(* is the union of the workers' buffers k.                                 *)
(***************************************************************************)
SumWorkers(count) ==
    LET S[n \in 0..NumWorkers] == IF n = 0 THEN 0 ELSE S[n - 1] + count[n]
    IN S[NumWorkers]

C10_SetsIndependentOfWorkers ==
    /\ ptPc.pc = "point" =>
          LET l == Listing[ptPc.i]
          IN \A f \in Faces : \A e \in Meshes :
                /\ cubemapVisible[l][f][e] = 0
                /\ SumWorkers([w \in Workers |-> cubeQ[w][f][e]]) =
                       Indicator(QueryMatches(e) /\ e \notin ptPc.todo /\ f \in PointFaces(l, e))
    /\ ptPc.pc = "spot" =>
          LET l == Listing[ptPc.i]
          IN \A e \in Meshes :
                /\ spotVisible[l][e] = 0
                /\ SumWorkers([w \in Workers |-> spotQ[w][e]]) =
                       Indicator(QueryMatches(e) /\ e \notin ptPc.todo /\ SpotVisible(l, e))
    /\ dirPc.pc = "par" =>
          LET l == DirOrder[dirPc.li]
              view == Head(dirPc.views)
              n == Len(cascadesFrusta[l][view][1])
          IN \A k \in 1..n : \A e \in Meshes :
                /\ cascadesVisible[l][view][1][k][e] = 0
                /\ SumWorkers([w \in Workers |->
                       IF k <= Len(viewQ[w]) THEN viewQ[w][k][e] ELSE 0]) =
                       Indicator(QueryMatches(e) /\ e \notin dirPc.todo
                                 /\ k \in DirCascades(l, view, e, n))
    /\ FrameDone =>
          /\ \A l \in PointLights : Classified(l) => cubemapVisible[l] = ExpectedCubemap(l)
          /\ \A l \in SpotLights : Classified(l) => spotVisible[l] = ExpectedSpot(l)
          /\ \A l \in DirLights : cascadesVisible[l] = ExpectedCascades(l)

\* a parallel pass of the point light ended with the two entities of a face
\* in the buffers of different workers, and the frame ended with both in
\* the set of the face
C10_PassWitness ==
    /\ ptPc.pc = "point"
    /\ ptPc.todo = {}
    /\ \E f \in Faces : \E w1, w2 \in Workers :
          w1 # w2 /\ cubeQ[w1][f]["m1"] = 1 /\ cubeQ[w2][f]["m2"] = 1

(***************************************************************************)
(* C11. The pipeline of a frame, run again with no change to lights,       *)
(* views, mesh entities or cluster lists, ends with the same membership of *)
(* every set of every light as the run before.                             *)
(***************************************************************************)
C11_SecondRunSameMembership ==
    FrameDone /\ sets0 # None =>
        LET before == sets0[1]
        IN /\ \A l \in PointLights : \A f \in Faces :
                 BagMembers(cubemapVisible[l][f]) = BagMembers(before.cubemap[l][f])
           /\ \A l \in SpotLights :
                 BagMembers(spotVisible[l]) = BagMembers(before.spot[l])
           /\ \A l \in DirLights : \A v \in Views :
                 /\ (cascadesVisible[l][v] = None) = (before.cascades[l][v] = None)
                 /\ cascadesVisible[l][v] # None =>
                       /\ Len(cascadesVisible[l][v][1]) = Len(before.cascades[l][v][1])
                       /\ \A k \in 1..Len(cascadesVisible[l][v][1]) :
                             BagMembers(cascadesVisible[l][v][1][k])
                                = BagMembers(before.cascades[l][v][1][k])

\* a second run over unchanged components ended; a face set of the point light
\* holds the mesh with an Aabb, the spot set and a cascade set hold entities
C11_Witness ==
    /\ FrameDone
    /\ sets0 # None
    /\ \E f \in Faces : \E e \in PointMembers("p1", f) : mesh[e].aabb /\ mesh[e].xform
    /\ SpotMembers("s1") # {}
    /\ DirMembers("d1") # {}

\* the entity passes the eligibility filters of the point and spot
\* classifier for light l and has an Aabb, a GlobalTransform and no
\* NoFrustumCulling
CulledCandidate(l, e) ==
    /\ Candidate(e)
    /\ LayersMeet(l, e)
    /\ InRangeOfSomeView(e)
    /\ mesh[e].aabb /\ mesh[e].xform /\ ~mesh[e].nfc
\* the frustum of face f of a point light
FaceFrustum(l, f) ==
    PerspectiveFrustum(xlate[l], CubeMapFaceTarget[f], ShadowMapNearZ, LightRange)

(***************************************************************************)
(* C12. For a point light a frame classifies and an eligible entity with   *)
(* an Aabb, a GlobalTransform and no NoFrustumCulling, the entity is in    *)
(* the set of face f if and only if its bounding box intersects the        *)
(* frustum of face f.                                                      *)
(* Fails as stated: an entity whose box is out of the sphere of the        *)
(* light's range is in no face set, though the corner of a face's frustum  *)
(* reaches beyond the sphere.                                              *)
(***************************************************************************)
C12_FaceMemberIffInFrustum ==
    FrameDone =>
        \A l \in PointLights : \A e \in Meshes :
            Classified(l) /\ CulledCandidate(l, e) =>
                \A f \in Faces :
                    e \in PointMembers(l, f)
                        <=> intersects_obb(FaceFrustum(l, f), mesh[e].place, TRUE, TRUE)

\* C12, amended: the entity is in the set of face f if and only if its box
\* intersects the sphere of the light's range and the frustum of face f
C12_FaceMemberIffInSphereAndFrustum ==
    FrameDone =>
        \A l \in PointLights : \A e \in Meshes :
            Classified(l) /\ CulledCandidate(l, e) =>
                \A f \in Faces :
                    e \in PointMembers(l, f)
                        <=> /\ sphere_intersects_obb(xlate[l], LightRange, mesh[e].place)
                            /\ intersects_obb(FaceFrustum(l, f), mesh[e].place, TRUE, TRUE)

\* the frame ended with a culled entity in the sets of two faces of the
\* point light and in no other
C12_Witness ==
    /\ FrameDone
    /\ Classified("p1")
    /\ \E e \in Meshes : \E f, g \in Faces :
          /\ CulledCandidate("p1", e)
          /\ f # g
          /\ \A h \in Faces : e \in PointMembers("p1", h) <=> h \in {f, g}

\* clear_directional_light_cascades and build_directional_light_cascades
\* have run in this frame
CascadesBuilt == stage \in {"dir_frusta", "point_frusta", "spot_frusta", "check"}
\* update_directional_light_frusta has run in this frame
DirFrustaUpdated == stage \in {"point_frusta", "spot_frusta", "check"}

(***************************************************************************)
(* C13. After clear_directional_light_cascades and                         *)
(* build_directional_light_cascades the keys of the cascade map of a       *)
(* directional light with shadows enabled are the views whose camera is    *)
(* active, and each maps to as many cascades as the config has bounds.     *)
(***************************************************************************)
C13_CascadeKeysAreActiveViews ==
    CascadesBuilt =>
        \A l \in DirLights : shadows[l] =>
            \A v \in Views :
                /\ (cascades[l][v] # None) = camActive[v]
                /\ camActive[v] => Len(cascades[l][v][1]) = Len(config[l].bounds)

\* the cascades were built for one view with a config of one bound; the
\* other view, now inactive, was a key in an earlier frame (its frusta are
\* still there) and is none now
C13_Witness ==
    /\ stage = "dir_frusta"
    /\ shadows["d1"]
    /\ camActive["v1"] /\ ~camActive["v2"]
    /\ Len(config["d1"].bounds) = 1
    /\ cascades["d1"]["v1"] # None
    /\ cascades["d1"]["v2"] = None
    /\ cascadesFrusta["d1"]["v2"] # None
    /\ Len(cascadesFrusta["d1"]["v2"][1]) = 2

(***************************************************************************)
(* C14. After clear_directional_light_cascades and                         *)
(* build_directional_light_cascades every directional light with shadows   *)
(* disabled has an empty cascade map.                                      *)
(* Fails: both systems skip the lights with shadows disabled, whose map    *)
(* keeps the cascades of the last frame with shadows enabled.              *)
(***************************************************************************)
C14_DisabledLightHasNoCascades ==
    CascadesBuilt => \A l \in DirLights : ~shadows[l] => cascades[l] = NoViews

(***************************************************************************)
(* C15. After update_directional_light_frusta every directional light with *)
(* shadows disabled has an empty CascadesFrusta map.                       *)
(* Fails: the system skips the lights with shadows disabled, whose map     *)
(* keeps the frusta of the last frame with shadows enabled.                *)
(***************************************************************************)
C15_DisabledLightHasNoFrusta ==
    DirFrustaUpdated => \A l \in DirLights : ~shadows[l] => cascadesFrusta[l] = NoViews

(***************************************************************************)
(* C16. For each active view and each cascade index of a directional light *)
(* with shadows enabled, the depth slice of the cascade begins at          *)
(* minimum_distance for the first cascade and at (1 - overlap_proportion)  *)
(* times the bound before for the others, and ends at its own bound.       *)
(* (overlap_proportion is in hundredths.)                                  *)
(***************************************************************************)
C16_CascadeSlices ==
    CascadesBuilt =>
        \A l \in DirLights : \A v \in Views :
            shadows[l] /\ camActive[v] =>
                /\ cascades[l][v] # None
                /\ \A idx \in 1..Len(config[l].bounds) :
                      /\ idx <= Len(cascades[l][v][1])
                      /\ cascades[l][v][1][idx].far = config[l].bounds[idx]
                      /\ idx = 1 =>
                            cascades[l][v][1][idx].near = config[l].minimum_distance
                      /\ idx > 1 =>
                            100 * cascades[l][v][1][idx].near
                              = (100 - config[l].overlap_proportion) * config[l].bounds[idx - 1]

\* the cascades were built from a config with two bounds, an overlap of one
\* half and a minimum distance that is not zero
C16_Witness ==
    /\ CascadesBuilt
    /\ shadows["d1"] /\ camActive["v1"]
    /\ config["d1"].overlap_proportion = 50
    /\ config["d1"].minimum_distance = 1
    /\ Len(cascades["d1"]["v1"][1]) = 2
    /\ cascades["d1"]["v1"][1][1].near = 1 /\ cascades["d1"]["v1"][1][1].far = 2
    /\ cascades["d1"]["v1"][1][2].near = 1 /\ cascades["d1"]["v1"][1][2].far = 4

\* CascadeShadowConfigBuilder::build has returned or panicked
ConfigBuilt == stage = "config_built"
\* build returned a config
Returned == ConfigBuilt /\ built # None

(***************************************************************************)
(* C17. Every CascadeShadowConfig returned by build has strictly           *)
(* increasing bounds.                                                      *)
(* Fails: build asserts nothing that relates first_cascade_far_bound to    *)
(* maximum_distance, and returns decreasing or equal bounds when the first *)
(* is not below the second.                                                *)
(***************************************************************************)
C17_ReturnedBoundsStrictlyIncreasing ==
    Returned =>
        \A i \in 1..(Len(built[1].bounds) - 1) : built[1].bounds[i] < built[1].bounds[i + 1]

\* the bounds of a returned config increase whenever first_cascade_far_bound
\* is below maximum_distance
BoundsIncreasingWhenFirstBelowMaximum ==
    Returned /\ builder.first_cascade_far_bound < builder.maximum_distance =>
        \A i \in 1..(Len(built[1].bounds) - 1) : built[1].bounds[i] < built[1].bounds[i + 1]

(***************************************************************************)
(* C18. build panics exactly when num_cascades = 0, minimum_distance < 0,  *)
(* maximum_distance <= minimum_distance, overlap_proportion is outside     *)
(* [0, 1), or num_cascades > 1 and minimum_distance >=                     *)
(* first_cascade_far_bound; otherwise it returns a config with             *)
(* num_cascades bounds and with overlap_proportion and minimum_distance    *)
(* copied.  (overlap_proportion is in hundredths.)                         *)
(***************************************************************************)
C18_PanicsExactlyOnListedInputs ==
    ConfigBuilt =>
        /\ (built = None) =
              \/ builder.num_cascades = 0
              \/ builder.minimum_distance < 0
              \/ builder.maximum_distance <= builder.minimum_distance
              \/ builder.overlap_proportion < 0
              \/ builder.overlap_proportion >= 100
              \/ (builder.num_cascades > 1
                    /\ builder.minimum_distance >= builder.first_cascade_far_bound)
        /\ built # None =>
              /\ Len(built[1].bounds) = builder.num_cascades
              /\ built[1].overlap_proportion = builder.overlap_proportion
              /\ built[1].minimum_distance = builder.minimum_distance

\* a builder with three cascades, a minimum distance and an overlap that are
\* not zero, accepted
C18_Witness ==
    /\ Returned
    /\ builder.num_cascades = 3
    /\ builder.minimum_distance = 10
    /\ builder.overlap_proportion = 50
    /\ Len(built[1].bounds) = 3

(***************************************************************************)
(* C19. When num_cascades = 1, first_cascade_far_bound influences neither  *)
(* the result of build nor whether it panics, and a returned config has    *)
(* bounds = [maximum_distance].                                            *)
(***************************************************************************)
C19_SingleCascadeIgnoresFirstBound ==
    ConfigBuilt /\ builder.num_cascades = 1 =>
        /\ \A first \in Distances :
              build([builder EXCEPT !.first_cascade_far_bound = first]) = built
        /\ built # None => built[1].bounds = <<builder.maximum_distance>>

\* one cascade, first_cascade_far_bound below minimum_distance, accepted
C19_Witness ==
    /\ Returned
    /\ builder.num_cascades = 1
    /\ builder.first_cascade_far_bound < builder.minimum_distance
    /\ built[1].bounds = <<builder.maximum_distance>>

(***************************************************************************)
(* C20. No step of the point and spot classifier, of the directional       *)
(* classifier or of the directional deferred command changes the           *)
(* ViewVisibility flag of an entity from set to unset.                     *)
(***************************************************************************)
C20_FlagNeverCleared ==
    [][\A e \in Meshes : viewVisibility[e] => viewVisibility'[e]]_vars

\* the classifiers overlapped; an entity whose flag was set when the frame
\* began was seen by no point light, and an entity whose flag was unset was
\* seen by a point light, by a spot light and by a directional light: both
\* flags are set
C20_Witness ==
    /\ FrameDone
    /\ overlapped
    /\ \E e \in visible_entity_query \ SeenByPoint :
          viewVisibility0[e] /\ viewVisibility[e]
    /\ \E e \in SeenByPoint \cap SeenBySpot \cap SeenByDir :
          ~viewVisibility0[e] /\ viewVisibility[e]

\* the entities some light of the frame classifies as visible
SeenByLights == SeenByPoint \cup SeenBySpot \cup SeenByDir

(***************************************************************************)
(* C21. The classifiers and the deferred command only remove entities from *)
(* PreviousVisibleEntities: no step adds one, and an entity that was a     *)
(* member when the frame's classification began and that no light          *)
(* classifies as visible stays a member.                                   *)
(***************************************************************************)
C21_PreviousOnlyShrunk ==
    /\ [](\A e \in previous0 : e \notin SeenByLights => e \in previous)
    /\ [][previous' \subseteq previous]_vars

\* the classifiers ran at the same time; of two entities that were members,
\* one was seen by a light and removed, the other was seen by none and stays
C21_Witness ==
    /\ FrameDone
    /\ overlapped
    /\ \E e \in previous0 \ SeenByLights : e \in previous
    /\ \E e \in previous0 \cap SeenByLights : e \notin previous

(***************************************************************************)
(* C22. The cascades built for a directional light depend on its transform *)
(* only through the rotation: a light with the same rotation and another   *)
(* translation or scale gets the same cascades from the same config and    *)
(* views, and the matrix of the light they are formed from has no          *)
(* translation and no scale.                                               *)
(***************************************************************************)
C22_CascadesDependOnRotationOnly ==
    CascadesBuilt =>
        \A l \in DirLights : \A v \in Views :
            shadows[l] /\ camActive[v] =>
                /\ cascades[l][v] # None
                /\ \A other \in DirTransforms :
                      other.rotation = dirTransform[l].rotation =>
                          ViewCascades(other, config[l]) = cascades[l][v][1]
                /\ \A idx \in 1..Len(cascades[l][v][1]) :
                      /\ cascades[l][v][1][idx].world_from_light.translation = Origin
                      /\ cascades[l][v][1][idx].world_from_light.scale = 1
                      /\ cascades[l][v][1][idx].world_from_light.rotation
                            = dirTransform[l].rotation

\* the cascades of a light that is translated, scaled and turned forward
\* were built
C22_Witness ==
    /\ CascadesBuilt
    /\ shadows["d1"] /\ camActive["v1"]
    /\ dirTransform["d1"] = [translation |-> <<0, 3, 0>>, rotation |-> Forward, scale |-> 2]
    /\ cascades["d1"]["v1"] # None
    /\ Len(cascades["d1"]["v1"][1]) = 2
    /\ cascades["d1"]["v1"][1][2].world_from_light.rotation = Forward

\* the frustum of a spot light derived from its current components
SpotFrustumNow(l) == PerspectiveFrustum(xlate[l], Forward, ShadowMapNearZ, LightRange)
\* the 6 face frusta of a point light derived from its current components
CubemapFrustaNow(l) ==
    [f \in Faces |->
        PerspectiveFrustum(xlate[l], CubeMapFaceTarget[f], ShadowMapNearZ, LightRange)]

(***************************************************************************)
(* C23. Whenever the frame classifies mesh entities against a spot light,  *)
(* after update_spot_light_frusta has run, the Frustum of the light is the *)
(* one derived from its current transform and parameters.                  *)
(* Fails: a light that moved while it was in no cluster is in the changed  *)
(* query of that frame only; when it enters a cluster later, unchanged,    *)
(* the system does not visit it and the classifier uses the old frustum.   *)
(***************************************************************************)
C23_SpotFrustumIsCurrent ==
    stage = "check" =>
        \A l \in SpotLights : Classified(l) => spotFrustum[l] = SpotFrustumNow(l)

(***************************************************************************)
(* C24. Whenever the frame classifies mesh entities against a point light, *)
(* after update_point_light_frusta has run, the 6 face frusta of the light *)
(* are the ones derived from its current translation, near depth and       *)
(* range.                                                                  *)
(***************************************************************************)
C24_CubemapFrustaAreCurrent ==
    stage = "check" =>
        \A l \in PointLights : Classified(l) => cubemapFrusta[l] = CubemapFrustaNow(l)

\* the point light moved in an earlier frame, while it was in no cluster
\* or its shadows were disabled, and did not change since: its frusta were
\* stale when this frame began, and the classifier runs on the current ones
C24_Witness ==
    /\ stage = "check"
    /\ ptPc.pc = "point"
    /\ Listing[ptPc.i] = "p1"
    /\ "p1" \notin changed
    /\ xlate["p1"] = Moved
    /\ frusta0.cubemap["p1"] # CubemapFrustaNow("p1")
    /\ frusta0.cubemap["p1"][1].kind = "persp"
    /\ cubemapFrusta["p1"] = CubemapFrustaNow("p1")

(***************************************************************************)
(* C25. update_directional_light_frusta gives a directional light that has *)
(* shadows enabled and is view-visible a CascadesFrusta with the keys of   *)
(* its cascade map and as many frusta per view as cascades; it leaves the  *)
(* CascadesFrusta of every other directional light as it was.              *)
(***************************************************************************)
C25_FrustaFollowCascades ==
    [][stage = "dir_frusta" /\ stage' = "point_frusta" =>
          \A l \in DirLights :
              IF shadows[l] /\ dirViewVis[l]
              THEN \A v \in Views :
                      /\ (cascadesFrusta'[l][v] # None) = (cascades[l][v] # None)
                      /\ cascades[l][v] # None =>
                            Len(cascadesFrusta'[l][v][1]) = Len(cascades[l][v][1])
              ELSE cascadesFrusta'[l] = cascadesFrusta[l]]_vars

\* the system has run for an enabled, visible light: view v2, whose sets of
\* the last classification are still there, has no frusta any more, and
\* view v1 has a single frustum where it had two
C25_Witness ==
    /\ stage = "point_frusta"
    /\ shadows["d1"] /\ dirViewVis["d1"]
    /\ cascadesFrusta["d1"]["v2"] = None
    /\ cascadesVisible["d1"]["v2"] # None
    /\ cascadesFrusta["d1"]["v1"] # None
    /\ Len(cascadesFrusta["d1"]["v1"][1]) = 1
    /\ cascadesVisible["d1"]["v1"] # None
    /\ Len(cascadesVisible["d1"]["v1"][1]) = 2

(***************************************************************************)
(* C26. After check_dir_light_mesh_visibility the CascadesVisibleEntities  *)
(* of every directional light, shadows enabled or not, has the keys of its *)
(* CascadesFrusta and per view as many sets as frusta; the lookup of the   *)
(* view in the merge step finds its entry.                                 *)
(***************************************************************************)
C26_SetsFollowFrusta ==
    /\ DirReturned =>
          \A l \in DirLights : \A v \in Views :
              /\ (cascadesVisible[l][v] # None) = (cascadesFrusta[l][v] # None)
              /\ cascadesFrusta[l][v] # None =>
                    Len(cascadesVisible[l][v][1]) = Len(cascadesFrusta[l][v][1])
    /\ dirPc.pc = "par" => cascadesVisible[DirOrder[dirPc.li]][Head(dirPc.views)] # None

\* the classifier returned for a light whose shadows are disabled and that
\* keeps the frusta of one view from an earlier frame: the view has as many
\* sets as frusta, all empty, and the other view has none
C26_Witness ==
    /\ DirReturned
    /\ ~shadows["d1"]
    /\ cascadesFrusta["d1"]["v1"] # None
    /\ cascadesFrusta["d1"]["v2"] = None
    /\ cascadesVisible["d1"]["v1"] # None
    /\ cascadesVisible["d1"]["v2"] = None
    /\ Len(cascadesVisible["d1"]["v1"][1]) = 1
    /\ DirMembers("d1") = {}

\* an entity that passes the filters of the directional classifier for
\* view v and is culled against the cascades' frusta
CulledDirCandidate(l, v, e) ==
    /\ Candidate(e)
    /\ LayersMeet(l, e)
    /\ InRangeOfView(e, v)
    /\ mesh[e].aabb /\ mesh[e].xform /\ ~mesh[e].nfc
\* the directional classifier has returned and its command is queued
DirCommandQueued == DirReturned /\ commands # <<>>

(***************************************************************************)
(* C27. For a directional light a frame classifies, a view, and an         *)
(* eligible entity with an Aabb, a GlobalTransform and no                  *)
(* NoFrustumCulling, the entity is in the set of cascade k if and only if  *)
(* its bounding box intersects the frustum of cascade k, far plane tested  *)
(* and near plane not, for each cascade by itself; an entity with bounds   *)
(* is queued for the deferred command exactly when it is in some cascade's *)
(* set.                                                                    *)
(***************************************************************************)
C27_CascadeMemberIffInFrustum ==
    DirCommandQueued =>
        /\ \A l \in DirLights : \A v \in Views : \A e \in Meshes :
              Classified(l) /\ cascadesFrusta[l][v] # None /\ CulledDirCandidate(l, v, e) =>
                  /\ v \in SetViews(l)
                  /\ \A k \in 1..Len(cascadesFrusta[l][v][1]) :
                        /\ k <= Len(cascadesVisible[l][v][1])
                        /\ e \in CascadeMembers(l, v, k)
                              <=> intersects_obb(cascadesFrusta[l][v][1][k], mesh[e].place,
                                                 FALSE, TRUE)
        /\ \A e \in Meshes :
              mesh[e].aabb /\ mesh[e].xform /\ ~mesh[e].nfc =>
                  (e \in CommandEntities(Head(commands))
                      <=> \E l \in DirLights : Classified(l) /\ e \in DirMembers(l))

\* a culled entity above the near plane of the cascades is in the set of
\* the first cascade of view v1, not in the second, and is queued
C27_Witness ==
    /\ DirCommandQueued
    /\ Classified("d1")
    /\ \E e \in Meshes :
          /\ CulledDirCandidate("d1", "v1", e)
          /\ mesh[e].place = <<0, 5, -1>>
          /\ Len(cascadesVisible["d1"]["v1"][1]) = 2
          /\ e \in CascadeMembers("d1", "v1", 1)
          /\ e \notin CascadeMembers("d1", "v1", 2)
          /\ e \in CommandEntities(Head(commands))

\* the entity has bounds that are culled, and they do not intersect the
\* sphere of the range of the point or spot light
OutOfRangeSphere(l, e) ==
    /\ mesh[e].aabb /\ mesh[e].xform /\ ~mesh[e].nfc
    /\ ~sphere_intersects_obb(xlate[l], LightRange, mesh[e].place)
\* the classified point or spot light sees the entity
SeenByLight(l, e) ==
    /\ e \in visible_entity_query
    /\ Classified(l)
    /\ IF l \in PointLights THEN PointFaces(l, e) # {} ELSE SpotVisible(l, e)

PointCull(l, f, e) ==
    \/ Unbounded(e)
    \/ mesh[e].nfc
    \/ /\ sphere_intersects_obb(xlate[l], LightRange, mesh[e].place)
       /\ intersects_obb(cubemapFrusta[l][f], mesh[e].place, TRUE, TRUE)
SpotCull(l, e) ==
    \/ Unbounded(e)
    \/ mesh[e].nfc
    \/ /\ sphere_intersects_obb(xlate[l], LightRange, mesh[e].place)
       /\ intersects_obb(spotFrustum[l], mesh[e].place, TRUE, TRUE)
DirCull(l, v, k, e) ==
    \/ Unbounded(e)
    \/ mesh[e].nfc
    \/ intersects_obb(cascadesFrusta[l][v][1][k], mesh[e].place, FALSE, TRUE)
\* the range test is in force for the entity
RangeTested(e) == ranges # None /\ mesh[e].range

(***************************************************************************)
(* C29. When the VisibleEntityRanges resource exists, an entity with a     *)
(* VisibilityRange is in the cascade sets of a directional light for view  *)
(* v only if it is in range of view v, and in the sets of a point or spot  *)
(* light only if it is in range of some view; when the resource does not   *)
(* exist or the entity has no VisibilityRange, the range test rejects      *)
(* nothing: an entity that passes the other filters is in every set whose  *)
(* culling it passes.                                                      *)
(***************************************************************************)
C29_RangeTest ==
    FrameDone =>
        \A e \in Meshes : \A l \in Lights :
            Classified(l) =>
                /\ RangeTested(e) /\ l \in DirLights =>
                      \A v \in SetViews(l) : \A k \in 1..Len(cascadesVisible[l][v][1]) :
                          e \in CascadeMembers(l, v, k) => entity_is_in_range_of_view(e, v)
                /\ RangeTested(e) /\ l \notin DirLights /\ e \in Members(l) =>
                      entity_is_in_range_of_any_view(e)
                /\ ~RangeTested(e) /\ Candidate(e) /\ LayersMeet(l, e) =>
                      /\ l \in PointLights =>
                            \A f \in Faces : PointCull(l, f, e) => e \in PointMembers(l, f)
                      /\ l \in SpotLights => (SpotCull(l, e) => e \in SpotMembers(l))
                      /\ l \in DirLights =>
                            \A v \in SetViews(l) : \A k \in 1..Len(cascadesVisible[l][v][1]) :
                                DirCull(l, v, k, e) => e \in CascadeMembers(l, v, k)

\* the resource exists and an entity with a VisibilityRange is in range of
\* view v1 alone: it is in a set of the point light and in a cascade set of
\* view v1, and in no cascade set of view v2 though it passes the culling
\* of one
C29_Witness ==
    /\ FrameDone
    /\ \A l \in Lights : Classified(l)
    /\ \E e \in Meshes :
          /\ RangeTested(e)
          /\ ranges[1][e] = {"v1"}
          /\ e \in Members("p1")
          /\ \E k \in 1..Len(cascadesVisible["d1"]["v1"][1]) : e \in CascadeMembers("d1", "v1", k)
          /\ cascadesVisible["d1"]["v2"] # None
          /\ \E k \in 1..Len(cascadesVisible["d1"]["v2"][1]) : DirCull("d1", "v2", k, e)
          /\ \A k \in 1..Len(cascadesVisible["d1"]["v2"][1]) : e \notin CascadeMembers("d1", "v2", k)

(***************************************************************************)
(* C30. An eligible entity with NoFrustumCulling, an Aabb and a            *)
(* GlobalTransform is in every frustum set of every light the frame        *)
(* classifies, wherever its bounds lie: the 6 faces of a point light, the  *)
(* spot set, every cascade of every view of a directional light (of the    *)
(* views it is in range of).                                               *)
(***************************************************************************)
C30_NoFrustumCullingInEverySet ==
    FrameDone =>
        \A e \in Meshes : \A l \in Lights :
            /\ Candidate(e) /\ LayersMeet(l, e) /\ Classified(l)
            /\ mesh[e].nfc /\ mesh[e].aabb /\ mesh[e].xform
            =>
                /\ l \in PointLights /\ InRangeOfSomeView(e) =>
                       \A f \in Faces : e \in PointMembers(l, f)
                /\ l \in SpotLights /\ InRangeOfSomeView(e) => e \in SpotMembers(l)
                /\ l \in DirLights =>
                       \A v \in Views :
                           cascadesFrusta[l][v] # None /\ InRangeOfView(e, v) =>
                               /\ v \in SetViews(l)
                               /\ \A k \in 1..Len(cascadesFrusta[l][v][1]) :
                                      /\ k <= Len(cascadesVisible[l][v][1])
                                      /\ e \in CascadeMembers(l, v, k)

\* an entity with NoFrustumCulling far below the lights, out of the sphere
\* of their range and behind the far plane of every cascade and frustum,
\* is in every set of the three lights
C30_Witness ==
    /\ FrameDone
    /\ \A l \in Lights : Classified(l)
    /\ \E e \in Meshes :
          /\ Candidate(e) /\ mesh[e].nfc /\ mesh[e].aabb /\ mesh[e].xform
          /\ mesh[e].place = <<0, -9, -1>>
          /\ ~sphere_intersects_obb(xlate["s1"], LightRange, mesh[e].place)
          /\ ~intersects_obb(spotFrustum["s1"], mesh[e].place, TRUE, TRUE)
          /\ \A f \in Faces : e \in PointMembers("p1", f)
          /\ e \in SpotMembers("s1")
          /\ \A v \in Views :
                /\ v \in SetViews("d1")
                /\ \A k \in 1..Len(cascadesVisible["d1"][v][1]) :
                      /\ ~intersects_obb(cascadesFrusta["d1"][v][1][k], mesh[e].place,
                                         FALSE, TRUE)
                      /\ e \in CascadeMembers("d1", v, k)

\* no entity occurs more than once in the buffer
NoDuplicate(b) == \A e \in Meshes : b[e] <= 1

(***************************************************************************)
(* C31. After a classifier has run, no entity occurs more than once in a   *)
(* per-frustum list: a face set of a point light, a spot set, a cascade    *)
(* set of one view; also when several views list the light or one view     *)
(* lists it more than once, and frame after frame.                         *)
(***************************************************************************)
C31_NoEntityTwiceInASet ==
    /\ PointReturned =>
          /\ \A l \in PointLights : \A f \in Faces : NoDuplicate(cubemapVisible[l][f])
          /\ \A l \in SpotLights : NoDuplicate(spotVisible[l])
    /\ DirReturned =>
          \A l \in DirLights : \A v \in SetViews(l) :
              \A k \in 1..Len(cascadesVisible[l][v][1]) :
                  NoDuplicate(cascadesVisible[l][v][1][k])

\* a frame that follows another without an edit ended; the point light is
\* listed twice by view v1 and the spot light by both views; an entity that
\* was in a face set, in the spot set and in a cascade set at the end of
\* the frame before is in each of them once
C31_Witness ==
    /\ FrameDone
    /\ sets0 # None
    /\ clusters["v1"] = <<"p1", "s1", "p1">>
    /\ clusters["v2"] = <<"s1">>
    /\ \A l \in Lights : Classified(l)
    /\ \E e \in Meshes :
          /\ \E f \in Faces : sets0[1].cubemap["p1"][f][e] = 1 /\ cubemapVisible["p1"][f][e] = 1
          /\ sets0[1].spot["s1"][e] = 1 /\ spotVisible["s1"][e] = 1
          /\ sets0[1].cascades["d1"]["v1"] # None
          /\ cascadesVisible["d1"]["v1"] # None
          /\ sets0[1].cascades["d1"]["v1"][1][1][e] = 1
          /\ cascadesVisible["d1"]["v1"][1][1][e] = 1

\* every thread-local per-frustum buffer of every worker is empty
LocalQueuesEmpty ==
    \A w \in Workers :
        /\ \A f \in Faces : cubeQ[w][f] = EmptyBag
        /\ spotQ[w] = EmptyBag
        /\ \A k \in 1..Len(viewQ[w]) : viewQ[w][k] = EmptyBag

(***************************************************************************)
(* C32. At the end of every merge step (of a point light, of a spot light, *)
(* of one view of a directional light) every per-frustum buffer of every   *)
(* worker is empty, also of the workers that took no part in the pass and  *)
(* of buffers sized for another number of frusta; hence the buffers are    *)
(* empty whenever no parallel pass is under way, in every frame.           *)
(***************************************************************************)
C32_BuffersEmptyAfterMerge ==
    /\ [](ptPc.pc \notin {"point", "spot"} /\ dirPc.pc # "par" => LocalQueuesEmpty)
    /\ [][PointMerge \/ SpotMerge \/ DirMerge => LocalQueuesEmpty']_vars

\* check_dir_light_mesh_visibility has returned in a frame of one cascade
\* per view; one worker's buffers are still sized for the two cascades of
\* an earlier frame (it took no part in the last pass), another's for one;
\* the merges filled a cascade set, a face set and the spot set
C32_Witness ==
    /\ FrameDone
    /\ LocalQueuesEmpty
    /\ Len(cascadesFrusta["d1"]["v1"][1]) = 1
    /\ \E w1, w2 \in Workers : Len(viewQ[w1]) = 2 /\ Len(viewQ[w2]) = 1
    /\ \E e \in Meshes : cascadesVisible["d1"]["v1"][1][1][e] = 1
    /\ \E e \in Meshes : \E f \in Faces : cubemapVisible["p1"][f][e] = 1
    /\ \E e \in Meshes : spotVisible["s1"][e] = 1

(***************************************************************************)
(* C33. Every entity the deferred command of the directional classifier    *)
(* marks (ViewVisibility set, removed from PreviousVisibleEntities) is in  *)
(* at least one cascade set of some directional light after that frame's   *)
(* check_dir_light_mesh_visibility; also for a config without bounds, the  *)
(* views of which have no frusta, and for entities without bounds or       *)
(* transform.                                                              *)
(***************************************************************************)
C33_MarkedIsInSomeCascadeSet ==
    DirCommandQueued =>
        \A e \in CommandEntities(Head(commands)) :
            \E l \in DirLights : e \in DirMembers(l)

\* the same, in the worlds in which every config has a bound
C33_MarkedIsInSomeSetWhenBounds ==
    DirCommandQueued /\ (\A l \in DirLights : config[l].bounds # <<>>) =>
        \A e \in CommandEntities(Head(commands)) :
            \E l \in DirLights : e \in DirMembers(l)

(***************************************************************************)
(* C34. After shrink_entities on a buffer that is not empty, the capacity  *)
(* of the buffer is at most two times its length, whatever capacity (at    *)
(* least the length) it had before; the elements of the buffer are as they *)
(* were.                                                                   *)
(***************************************************************************)
C34_CapacityAtMostTwiceLength ==
    /\ [](stage = "shrunk" /\ buffer.entities # <<>> =>
            buffer.capacity <= 2 * Len(buffer.entities))
    /\ [][shrink => buffer'.entities = buffer.entities]_vars

\* what shrink_entities does to the capacity: it never grows, and stays
\* below four times the length; the elements are as they were
C34_CapacityBelowFourTimesLength ==
    /\ [](stage = "shrunk" /\ buffer.entities # <<>> =>
            buffer.capacity < 4 * Len(buffer.entities))
    /\ [][shrink => /\ buffer'.entities = buffer.entities
                    /\ buffer'.capacity <= buffer.capacity
                    /\ buffer'.capacity >= Len(buffer.entities)]_vars

=============================================================================
